---- MODULE Spec2Model ----
(***************************************************************************)
(* Document pagination and highlight reconciliation of the document        *)
(* viewer (src/components/DocumentViewer.tsx): the snippet locator         *)
(* findSnippetIndex, the paginator `pages` and the per-page compositor     *)
(* renderPageContent.                                                      *)
(*                                                                         *)
(* A JavaScript string is modelled as a sequence of one-character strings, *)
(* offsets are 0-based as in the source (sequence index = offset + 1).     *)
(***************************************************************************)
EXTENDS Integers, Sequences, FiniteSets, TLC

VARIABLES
    pc,         \* position of the run: which step has been taken
    document,   \* the document prop: [content, highlights]
    snippet,    \* the snippet argument of a findSnippetIndex call
    found,      \* the value that call returned
    pageList,   \* the value of the `pages` memo
    rendered,   \* rendered[p]: the elements renderPageContent returned for page p
    composed,   \* composed[p]: the highlightsWithIndices of that call
    selectedHighlightId,    \* the selectedHighlightId state of the viewer
    documents,  \* the documents state of App
    selectedDocId,  \* the selectedDocId state of App
    view,       \* the view state of App
    panel,      \* the state of the mounted ActionPanel
    timers,     \* the pending setTimeout callbacks of handleSaveRemediation, oldest first
    now,        \* Date.now()
    pendingFile,    \* the pendingFile state of App, as a sequence of at most one
    upload,     \* the state of the mounted DocumentUpload
    runs,       \* the processFile calls that have not ended, oldest first
    storage,    \* localStorage: the value under LOCAL_STORAGE_KEY, at most one
    env,        \* what the app was started in: the build, the storage quota, the stored value
    pdf         \* the text of every page of the PDF file readPdfContent is given

vars == <<pc, document, snippet, found, pageList, rendered, composed, selectedHighlightId,
          documents, selectedDocId, view, panel, timers, now,
          pendingFile, upload, runs, storage, env, pdf>>

(***************************************************************************)
(* Bounds of the model.                                                    *)
(***************************************************************************)
MaxContentLen == 4      \* longest generated content of the locator runs
MaxSnippetLen == 3      \* longest generated snippet of the locator runs

(***************************************************************************)
(* Strings.                                                                *)
(***************************************************************************)
\* the value null
null == "null"

\* the state of App and of the action panel in the runs that only exercise
\* the locator, the paginator or one render pass
appVars == <<documents, selectedDocId, view, panel, timers, now,
             pendingFile, upload, runs, storage, env, pdf>>

\* the state of a DocumentUpload that has just mounted
UploadStart ==
    [isProcessing |-> FALSE, progressStep |-> 0, errorMessage |-> null,
     processedFileRef |-> null]

\* an environment the runs without App never look at
NoEnv == [copy |-> "none", quota |-> <<>>, stored |-> <<>>]

AppIdle ==
    /\ documents = <<>>
    /\ selectedDocId = null
    /\ view = "DASHBOARD"
    /\ panel = [currentStep |-> 1, isSubmitting |-> FALSE, showSuccess |-> FALSE,
                isEditing |-> FALSE]
    /\ timers = <<>>
    /\ now = 0
    /\ pendingFile = <<>>
    /\ upload = UploadStart
    /\ runs = <<>>
    /\ storage = <<>>
    /\ env = NoEnv
    /\ pdf = <<>>

StringsUpTo(S, n) == UNION {[1..k -> S] : k \in 0..n}

Min(S) == CHOOSE x \in S : \A y \in S : x <= y

\* /\s/ on the characters the model uses
IsSpace(c) == c \in {" ", "\n", "\t"}

Clamp(n, len) == IF n < 0 THEN 0 ELSE IF n > len THEN len ELSE n

\* String.prototype.substring(a, b): both ends clamped to [0, length], swapped
\* when a > b
substring(s, a, b) ==
    LET ca == Clamp(a, Len(s))
        cb == Clamp(b, Len(s))
        lo == IF ca <= cb THEN ca ELSE cb
        hi == IF ca <= cb THEN cb ELSE ca
    IN  SubSeq(s, lo + 1, hi)

\* does t occur in s at offset i
OccursAt(s, t, i) ==
    /\ i >= 0
    /\ i + Len(t) <= Len(s)
    /\ SubSeq(s, i + 1, i + Len(t)) = t

\* String.prototype.indexOf(t) searching from offset i: left-to-right scan
RECURSIVE indexOfFrom(_, _, _)
indexOfFrom(s, t, i) ==
    IF i + Len(t) > Len(s) THEN -1
    ELSE IF OccursAt(s, t, i) THEN i
    ELSE indexOfFrom(s, t, i + 1)

indexOf(s, t) == indexOfFrom(s, t, 0)

\* a snippet left as it is
keepWhitespace(s) == s

\* snippet.replace(/\s+/g, '')
stripWhitespace(s) == SelectSeq(s, LAMBDA c : ~IsSpace(c))

(***************************************************************************)
(* findSnippetIndex.                                                       *)
(***************************************************************************)
\* a loop that tests the mismatching character again as a new start
RECURSIVE fuzzyScanRetest(_, _, _, _, _)
fuzzyScanRetest(content, cleanSnippet, i, snippetIdx, startIdx) ==
    IF i >= Len(content) THEN -1
    ELSE LET char == content[i + 1] IN
        IF IsSpace(char)
        THEN fuzzyScanRetest(content, cleanSnippet, i + 1, snippetIdx, startIdx)
        ELSE IF char = cleanSnippet[snippetIdx + 1]
        THEN LET newStart == IF snippetIdx = 0 THEN i ELSE startIdx IN
             IF snippetIdx + 1 = Len(cleanSnippet)
             THEN newStart
             ELSE fuzzyScanRetest(content, cleanSnippet, i + 1, snippetIdx + 1, newStart)
        ELSE IF startIdx # -1
        THEN fuzzyScanRetest(content, cleanSnippet, i, 0, -1)
        ELSE fuzzyScanRetest(content, cleanSnippet, i + 1, snippetIdx, startIdx)

\* a loop that keeps the attempt in progress after a mismatch
RECURSIVE fuzzyScanNoReset(_, _, _, _, _)
fuzzyScanNoReset(content, cleanSnippet, i, snippetIdx, startIdx) ==
    IF i >= Len(content) THEN -1
    ELSE LET char == content[i + 1] IN
        IF IsSpace(char)
        THEN fuzzyScanNoReset(content, cleanSnippet, i + 1, snippetIdx, startIdx)
        ELSE IF char = cleanSnippet[snippetIdx + 1]
        THEN LET newStart == IF snippetIdx = 0 THEN i ELSE startIdx IN
             IF snippetIdx + 1 = Len(cleanSnippet)
             THEN newStart
             ELSE fuzzyScanNoReset(content, cleanSnippet, i + 1, snippetIdx + 1, newStart)
        ELSE fuzzyScanNoReset(content, cleanSnippet, i + 1, snippetIdx, startIdx)

\* the for loop of findSnippetIndex from position i with the loop's locals
RECURSIVE fuzzyScan(_, _, _, _, _)
fuzzyScan(content, cleanSnippet, i, snippetIdx, startIdx) ==
    IF i >= Len(content) THEN -1
    ELSE LET char == content[i + 1] IN
        IF IsSpace(char)
        THEN fuzzyScan(content, cleanSnippet, i + 1, snippetIdx, startIdx)
        ELSE IF char = cleanSnippet[snippetIdx + 1]
        THEN LET newStart == IF snippetIdx = 0 THEN i ELSE startIdx IN
             IF snippetIdx + 1 = Len(cleanSnippet)
             THEN newStart
             ELSE fuzzyScan(content, cleanSnippet, i + 1, snippetIdx + 1, newStart)
        ELSE IF startIdx # -1
        THEN fuzzyScan(content, cleanSnippet, i + 1, 0, -1)
        ELSE fuzzyScan(content, cleanSnippet, i + 1, snippetIdx, startIdx)

\* a locator with the exact search only
findSnippetIndexExactOnly(content, snip) == indexOf(content, snip)

\* a locator without the exact search
findSnippetIndexFuzzyOnly(content, snip) ==
    LET cleanSnippet == stripWhitespace(snip) IN
    IF cleanSnippet = <<>> THEN -1
    ELSE fuzzyScan(content, cleanSnippet, 0, 0, -1)

findSnippetIndex(content, snip) ==
    LET exactIdx == indexOf(content, snip) IN
    IF exactIdx # -1 THEN exactIdx
    ELSE LET cleanSnippet == stripWhitespace(snip) IN
         IF cleanSnippet = <<>> THEN -1
         ELSE fuzzyScan(content, cleanSnippet, 0, 0, -1)

(***************************************************************************)
(* The paginator: the `pages` memo.                                        *)
(***************************************************************************)
\* CHARS_PER_PAGE is 2500 in the source; the model scales it down so that
\* contents of a few characters roll over to a second and a third page
CHARS_PER_PAGE == 3

\* a content that is null or undefined; no string has this element
undefined == <<"undefined">>

IsDigit(c) == c \in {"0", "1", "2", "3", "4", "5", "6", "7", "8", "9"}

\* the literal parts of /--- Página \d+ ---\n?/
MarkerPrefix == <<"-", "-", "-", " ", "P", "á", "g", "i", "n", "a", " ">>
MarkerSuffix == <<" ", "-", "-", "-">>

\* \d+ at offset i: the number of digits taken (greedy)
RECURSIVE digitsAt(_, _)
digitsAt(s, i) ==
    IF i < Len(s) /\ IsDigit(s[i + 1]) THEN 1 + digitsAt(s, i + 1) ELSE 0

\* the length of the match of /--- Página \d+ ---\n?/ that starts at offset i,
\* 0 when there is none
markerMatchLength(s, i) ==
    IF ~OccursAt(s, MarkerPrefix, i) THEN 0
    ELSE LET d == digitsAt(s, i + Len(MarkerPrefix))
             afterDigits == i + Len(MarkerPrefix) + d
             afterSuffix == afterDigits + Len(MarkerSuffix)
         IN  IF d = 0 \/ ~OccursAt(s, MarkerSuffix, afterDigits) THEN 0
             ELSE IF afterSuffix < Len(s) /\ s[afterSuffix + 1] = "\n"
             THEN afterSuffix + 1 - i
             ELSE afterSuffix - i

\* pageMarkerRegex.exec(content) with the given lastIndex: the index of the
\* leftmost match at or after lastIndex, -1 for null
RECURSIVE markerExec(_, _)
markerExec(s, lastIndex) ==
    IF lastIndex > Len(s) THEN -1
    ELSE IF markerMatchLength(s, lastIndex) > 0 THEN lastIndex
    ELSE markerExec(s, lastIndex + 1)

\* an end of page that ignores the next marker
endOfPageContentIgnoringNext(content, startOfPageContent) == Len(content)

\* nextRegex.exec from startOfPageContent: where the page ends
endOfPageContent(content, startOfPageContent) ==
    LET nextMatch == markerExec(content, startOfPageContent) IN
    IF nextMatch # -1 THEN nextMatch ELSE Len(content)

\* a loop that pushes the page of every marker, empty or not
RECURSIVE markerPagesKeepEmpty(_, _, _)
markerPagesKeepEmpty(content, lastIndex, pagesArr) ==
    LET match == markerExec(content, lastIndex) IN
    IF match = -1 THEN pagesArr
    ELSE LET startOfPageContent == match + markerMatchLength(content, match)
             pageText == substring(content, startOfPageContent,
                                   endOfPageContent(content, startOfPageContent))
         IN  markerPagesKeepEmpty(content, startOfPageContent,
                 Append(pagesArr, [text |-> pageText,
                                   startIndex |-> startOfPageContent]))

\* the while loop over the markers, from the regex's lastIndex
RECURSIVE markerPages(_, _, _)
markerPages(content, lastIndex, pagesArr) ==
    LET match == markerExec(content, lastIndex) IN
    IF match = -1 THEN pagesArr
    ELSE LET startOfPageContent == match + markerMatchLength(content, match)
             pageText == substring(content, startOfPageContent,
                                   endOfPageContent(content, startOfPageContent))
         IN  markerPages(content, startOfPageContent,
                 IF Len(pageText) > 0 \/ Len(pagesArr) = 0
                 THEN Append(pagesArr, [text |-> pageText,
                                        startIndex |-> startOfPageContent])
                 ELSE pagesArr)

\* content.split('\n')
RECURSIVE split(_, _)
split(s, sep) ==
    LET i == indexOf(s, <<sep>>) IN
    IF i = -1 THEN <<s>>
    ELSE <<SubSeq(s, 1, i)>> \o split(SubSeq(s, i + 2, Len(s)), sep)

\* the locals of the fallback before the first paragraph
fallbackStart ==
    [pagesArr |-> <<>>, currentPageText |-> <<>>, currentPageStartIndex |-> 0,
     currentLength |-> 0, globalIndexTracker |-> 0]

\* a callback that rolls over even when the page in progress is empty
fallbackStepRollEmpty(st, para) ==
    LET paraWithNewline == para \o <<"\n">>
        rolled == IF (st.currentLength + Len(para)) > CHARS_PER_PAGE
                  THEN [st EXCEPT
                          !.pagesArr = Append(@, [text |-> st.currentPageText,
                                                  startIndex |-> st.currentPageStartIndex]),
                          !.currentPageText = <<>>,
                          !.currentPageStartIndex = st.globalIndexTracker,
                          !.currentLength = 0]
                  ELSE st
    IN  [rolled EXCEPT
           !.currentPageText = @ \o paraWithNewline,
           !.currentLength = @ + Len(paraWithNewline),
           !.globalIndexTracker = @ + Len(paraWithNewline)]

\* a callback that rolls over already when the paragraph ties the budget
fallbackStepTieRolls(st, para) ==
    LET paraWithNewline == para \o <<"\n">>
        rolled == IF (st.currentLength + Len(para)) >= CHARS_PER_PAGE
                     /\ Len(st.currentPageText) > 0
                  THEN [st EXCEPT
                          !.pagesArr = Append(@, [text |-> st.currentPageText,
                                                  startIndex |-> st.currentPageStartIndex]),
                          !.currentPageText = <<>>,
                          !.currentPageStartIndex = st.globalIndexTracker,
                          !.currentLength = 0]
                  ELSE st
    IN  [rolled EXCEPT
           !.currentPageText = @ \o paraWithNewline,
           !.currentLength = @ + Len(paraWithNewline),
           !.globalIndexTracker = @ + Len(paraWithNewline)]

\* a callback whose offset tracker leaves out the newline terminators
fallbackStepNoNewlineOffset(st, para) ==
    LET paraWithNewline == para \o <<"\n">>
        rolled == IF (st.currentLength + Len(para)) > CHARS_PER_PAGE
                     /\ Len(st.currentPageText) > 0
                  THEN [st EXCEPT
                          !.pagesArr = Append(@, [text |-> st.currentPageText,
                                                  startIndex |-> st.currentPageStartIndex]),
                          !.currentPageText = <<>>,
                          !.currentPageStartIndex = st.globalIndexTracker,
                          !.currentLength = 0]
                  ELSE st
    IN  [rolled EXCEPT
           !.currentPageText = @ \o paraWithNewline,
           !.currentLength = @ + Len(paraWithNewline),
           !.globalIndexTracker = @ + Len(para)]

\* one call of the forEach callback on paragraph para
fallbackStep(st, para) ==
    LET paraWithNewline == para \o <<"\n">>
        rolled == IF (st.currentLength + Len(para)) > CHARS_PER_PAGE
                     /\ Len(st.currentPageText) > 0
                  THEN [st EXCEPT
                          !.pagesArr = Append(@, [text |-> st.currentPageText,
                                                  startIndex |-> st.currentPageStartIndex]),
                          !.currentPageText = <<>>,
                          !.currentPageStartIndex = st.globalIndexTracker,
                          !.currentLength = 0]
                  ELSE st
    IN  [rolled EXCEPT
           !.currentPageText = @ \o paraWithNewline,
           !.currentLength = @ + Len(paraWithNewline),
           !.globalIndexTracker = @ + Len(paraWithNewline)]

\* paragraphs.forEach
RECURSIVE fallbackLoop(_, _)
fallbackLoop(st, paragraphs) ==
    IF paragraphs = <<>> THEN st
    ELSE fallbackLoop(fallbackStep(st, Head(paragraphs)), Tail(paragraphs))

\* a fallback that forgets the page in progress at the end
fallbackPagesNoFlush(content) ==
    fallbackLoop(fallbackStart, split(content, "\n")).pagesArr

\* 2. Fallback: character count pagination
fallbackPages(content) ==
    LET st == fallbackLoop(fallbackStart, split(content, "\n")) IN
    IF Len(st.currentPageText) > 0
    THEN Append(st.pagesArr, [text |-> st.currentPageText,
                              startIndex |-> st.currentPageStartIndex])
    ELSE st.pagesArr

\* a paginator without the guard for empty content
pagesNoEmptyGuard(doc) ==
    LET content == doc.content IN
    IF markerExec(content, 0) # -1 /\ Len(markerPages(content, 0, <<>>)) > 0
    THEN markerPages(content, 0, <<>>)
    ELSE fallbackPages(content)

\* the pages memo
pages(doc) ==
    IF doc.content = undefined \/ doc.content = <<>>
    THEN <<[text |-> <<>>, startIndex |-> 0]>>
    ELSE LET content == doc.content IN
         IF markerExec(content, 0) # -1 /\ Len(markerPages(content, 0, <<>>)) > 0
         THEN markerPages(content, 0, <<>>)
         ELSE fallbackPages(content)

(***************************************************************************)
(* Paginator runs: the pages memo computed for a generated content.  A     *)
(* content is a concatenation of pieces: page markers, a marker without    *)
(* its digits, newlines and letters.                                       *)
(***************************************************************************)
MaxPieces == 4          \* most pieces in a generated content

Marker1 == MarkerPrefix \o <<"1">> \o MarkerSuffix
Marker12 == MarkerPrefix \o <<"1", "2">> \o MarkerSuffix
BrokenMarker == MarkerPrefix \o MarkerSuffix

Pieces == {Marker1, Marker12, BrokenMarker, <<"\n">>, <<"a">>, <<"a", "a">>}

RECURSIVE Flatten(_)
Flatten(ss) == IF ss = <<>> THEN <<>> ELSE Head(ss) \o Flatten(Tail(ss))

\* "Page one text.\n--- Página 2 ---\nPage two text."
ScenarioContent ==
    <<"P", "a", "g", "e", " ", "o", "n", "e", " ", "t", "e", "x", "t", ".", "\n">>
    \o MarkerPrefix \o <<"2">> \o MarkerSuffix \o <<"\n">>
    \o <<"P", "a", "g", "e", " ", "t", "w", "o", " ", "t", "e", "x", "t", ".">>

PageContents ==
    {Flatten(ps) : ps \in StringsUpTo(Pieces, MaxPieces)}
        \cup {undefined, ScenarioContent}

InitPages ==
    /\ pc = "start"
    /\ \E c \in PageContents : document = [content |-> c, highlights |-> <<>>]
    /\ snippet = <<>>
    /\ found = -1
    /\ pageList = <<>>
    /\ rendered = <<>>
    /\ composed = <<>>
    /\ selectedHighlightId = null
    /\ AppIdle

\* the first evaluation of the memo
Paginate ==
    /\ pc = "start"
    /\ pageList' = pages(document)
    /\ pc' = "paginated"
    /\ UNCHANGED <<document, snippet, found, rendered, composed, selectedHighlightId>>
    /\ UNCHANGED appVars

NextPages == Paginate

SpecPages == InitPages /\ [][NextPages]_vars

(***************************************************************************)
(* The compositor: renderPageContent.  An element is a record              *)
(* [tag, id, highlight, className, text, parts]; a <p> holds its children  *)
(* in parts, a <span> or <mark> its text in text.  The class of a <p> is   *)
(* not modelled.  An optional field (a highlight's remediation) is a       *)
(* sequence of at most one value.                                          *)
(***************************************************************************)
Element(tag, id, highlight, className, text, parts) ==
    [tag |-> tag, id |-> id, highlight |-> highlight, className |-> className,
     text |-> text, parts |-> parts]

\* String.prototype.trim
RECURSIVE trimStart(_)
trimStart(s) ==
    IF s # <<>> /\ IsSpace(Head(s)) THEN trimStart(Tail(s)) ELSE s

RECURSIVE trimEnd(_)
trimEnd(s) ==
    IF s # <<>> /\ IsSpace(s[Len(s)]) THEN trimEnd(SubSeq(s, 1, Len(s) - 1)) ELSE s

trim(s) == trimEnd(trimStart(s))

startsWith(s, t) == OccursAt(s, t, 0)

\* s.replace(t, ''): the first occurrence of t removed
removeFirst(s, t) ==
    LET i == indexOf(s, t) IN
    IF i = -1 THEN s
    ELSE SubSeq(s, 1, i) \o SubSeq(s, i + Len(t) + 1, Len(s))

\* line.trim().match(/^\d+\./)
isNumbered(s) ==
    LET d == digitsAt(s, 0) IN d > 0 /\ d < Len(s) /\ s[d + 1] = "."

\* the text of a line that no highlight intersects
cleanLine(line) ==
    IF startsWith(line, <<"#", " ">>) THEN removeFirst(line, <<"#", " ">>)
    ELSE IF startsWith(line, <<"#", "#", " ">>)
    THEN removeFirst(line, <<"#", "#", " ">>)
    ELSE IF startsWith(line, <<"#", "#", "#", " ">>)
    THEN removeFirst(line, <<"#", "#", "#", " ">>)
    ELSE IF isNumbered(trim(line)) THEN line
    ELSE IF startsWith(trim(line), <<"-", " ">>) THEN line
    ELSE IF startsWith(trim(line), <<">", " ">>) THEN removeFirst(line, <<">", " ">>)
    ELSE line

\* the class of a <mark>, as the list of the fragments it is concatenated from
highlightClass(h) ==
    LET isSelected == selectedHighlightId = h.id
        hasRemediation == h.remediation # <<>>
    IN  <<"rounded-[2px] px-0.5 mx-0.5 cursor-pointer transition-all duration-200 font-semibold inline-block ">>
        \o (IF isSelected
            THEN <<"ring-2 ring-primary ring-offset-2 z-10 relative shadow-sm ",
                   IF h.riskLevel = "HIGH" THEN "bg-red-200 text-red-900"
                   ELSE "bg-orange-200 text-orange-900">>
            ELSE IF hasRemediation
            THEN <<"bg-emerald-100/50 text-emerald-900 border-b-2 border-emerald-400 opacity-70">>
            ELSE <<"border-b-2 hover:opacity-100 opacity-90 ",
                   IF h.riskLevel = "HIGH" THEN "bg-red-50 border-red-300 hover:bg-red-100"
                   ELSE IF h.riskLevel = "MEDIUM"
                   THEN "bg-orange-50 border-orange-300 hover:bg-orange-100"
                   ELSE "bg-emerald-50 border-emerald-300">>)

\* Array.prototype.sort((a, b) => a.localIndex - b.localIndex): stable
RECURSIVE insertByLocalIndex(_, _)
insertByLocalIndex(sorted, h) ==
    IF sorted = <<>> THEN <<h>>
    ELSE IF sorted[Len(sorted)].localIndex <= h.localIndex THEN Append(sorted, h)
    ELSE Append(insertByLocalIndex(SubSeq(sorted, 1, Len(sorted) - 1), h),
                sorted[Len(sorted)])

\* the highlights left in the order of document.highlights
unsortedHighlights(hs) == hs

RECURSIVE sortByLocalIndex(_)
sortByLocalIndex(hs) ==
    IF hs = <<>> THEN <<>>
    ELSE insertByLocalIndex(sortByLocalIndex(SubSeq(hs, 1, Len(hs) - 1)), hs[Len(hs)])

\* a callback that also takes the offset right after the page's text
resolveOnPageInclusive(h, pageText, pageStartIndex) ==
    LET exactIndex == findSnippetIndex(document.content, h.textSnippet) IN
    IF exactIndex # -1 /\ exactIndex >= pageStartIndex
          /\ exactIndex <= (pageStartIndex + Len(pageText))
    THEN <<[id |-> h.id, textSnippet |-> h.textSnippet, riskLevel |-> h.riskLevel,
            remediation |-> h.remediation,
            localIndex |-> exactIndex - pageStartIndex, length |-> Len(h.textSnippet)]>>
    ELSE <<>>

\* the callback of document.highlights.map: the highlight with its place on
\* the page, as a sequence of one element, or the empty sequence for null
resolveOnPage(h, pageText, pageStartIndex) ==
    LET exactIndex == findSnippetIndex(document.content, h.textSnippet) IN
    IF exactIndex # -1 /\ exactIndex >= pageStartIndex
          /\ exactIndex < (pageStartIndex + Len(pageText))
    THEN <<[id |-> h.id, textSnippet |-> h.textSnippet, riskLevel |-> h.riskLevel,
            remediation |-> h.remediation,
            localIndex |-> exactIndex - pageStartIndex, length |-> Len(h.textSnippet)]>>
    ELSE <<>>

\* document.highlights.map(...).filter(Boolean)
RECURSIVE resolvedOnPage(_, _, _)
resolvedOnPage(hs, pageText, pageStartIndex) ==
    IF hs = <<>> THEN <<>>
    ELSE resolveOnPage(Head(hs), pageText, pageStartIndex)
         \o resolvedOnPage(Tail(hs), pageText, pageStartIndex)

highlightsWithIndices(pageText, pageStartIndex) ==
    sortByLocalIndex(resolvedOnPage(document.highlights, pageText, pageStartIndex))

\* relevantHighlights.forEach: acc holds parts, cursorInLine and renderedHighlightIds
RECURSIVE composeHighlights(_, _, _, _)
composeHighlights(relevantHighlights, line, lineStart, acc) ==
    IF relevantHighlights = <<>> THEN acc
    ELSE LET h == Head(relevantHighlights)
             a == h.localIndex - lineStart
             b == (h.localIndex + h.length) - lineStart
             highlightStartInLine == IF a > 0 THEN a ELSE 0
             highlightEndInLine == IF b < Len(line) THEN b ELSE Len(line)
             pre == IF highlightStartInLine > acc.cursorInLine
                    THEN <<Element("span", undefined, null, <<>>,
                                   substring(line, acc.cursorInLine, highlightStartInLine),
                                   <<>>)>>
                    ELSE <<>>
             matchedText == substring(line, highlightStartInLine, highlightEndInLine)
             isFirstOccurrence == h.id \notin acc.renderedHighlightIds
             mark == Element("mark",
                             IF isFirstOccurrence THEN <<"highlight-", h.id>> ELSE undefined,
                             h.id, highlightClass(h), matchedText, <<>>)
         IN  composeHighlights(Tail(relevantHighlights), line, lineStart,
                 [parts |-> acc.parts \o pre \o <<mark>>,
                  cursorInLine |-> highlightEndInLine,
                  renderedHighlightIds |-> acc.renderedHighlightIds \cup {h.id}])

\* the callback of lines.map for one line; returns the element and the ids
\* rendered so far
renderLine(line, lineStart, hwi, renderedHighlightIds) ==
    LET lineEnd == lineStart + Len(line)
        relevantHighlights ==
            SelectSeq(hwi, LAMBDA h : h.localIndex < lineEnd
                                      /\ (h.localIndex + h.length) > lineStart)
    IN  IF trim(line) = <<>>
        THEN [element |-> Element("br", undefined, null, <<>>, <<>>, <<>>),
              renderedHighlightIds |-> renderedHighlightIds]
        ELSE IF Len(relevantHighlights) = 0
        THEN [element |-> Element("p", undefined, null, <<>>, <<>>,
                                  <<Element("text", undefined, null, <<>>,
                                            cleanLine(line), <<>>)>>),
              renderedHighlightIds |-> renderedHighlightIds]
        ELSE LET acc == composeHighlights(relevantHighlights, line, lineStart,
                            [parts |-> <<>>, cursorInLine |-> 0,
                             renderedHighlightIds |-> renderedHighlightIds])
                 end == IF acc.cursorInLine < Len(line)
                        THEN <<Element("span", undefined, null, <<>>,
                                       substring(line, acc.cursorInLine, Len(line)),
                                       <<>>)>>
                        ELSE <<>>
             IN  [element |-> Element("p", undefined, null, <<>>, <<>>, acc.parts \o end),
                  renderedHighlightIds |-> acc.renderedHighlightIds]

\* lines.map with a set of rendered ids that starts empty on every line
RECURSIVE renderLinesFreshIds(_, _, _, _)
renderLinesFreshIds(lines, currentLocalIndex, hwi, renderedHighlightIds) ==
    IF lines = <<>> THEN <<>>
    ELSE <<renderLine(Head(lines), currentLocalIndex, hwi, {}).element>>
         \o renderLinesFreshIds(Tail(lines), currentLocalIndex + Len(Head(lines)) + 1,
                                hwi, {})

\* lines.map: the elements of the lines from currentLocalIndex on
RECURSIVE renderLines(_, _, _, _)
renderLines(lines, currentLocalIndex, hwi, renderedHighlightIds) ==
    IF lines = <<>> THEN <<>>
    ELSE LET r == renderLine(Head(lines), currentLocalIndex, hwi, renderedHighlightIds)
         IN  <<r.element>>
             \o renderLines(Tail(lines), currentLocalIndex + Len(Head(lines)) + 1,
                            hwi, r.renderedHighlightIds)

renderPageContent(pageText, pageStartIndex) ==
    renderLines(split(pageText, "\n"), 0,
                highlightsWithIndices(pageText, pageStartIndex), {})

(***************************************************************************)
(* Viewer runs: one render pass of DocumentViewer in DIGITAL mode for a    *)
(* generated document with two highlights: the pages memo, then            *)
(* renderPageContent for every page in order.                              *)
(***************************************************************************)
MaxViewTotal == 8       \* most characters of a plain content and its two snippets together
MaxMarkerViewTotal == 3 \* most generated characters of a content with markers and its snippets
MaxBlankViewTotal == 4  \* most characters of a content with spaces and its two snippets together

ViewChars == {"a", "\n"}
MarkerViewChars == {"a", " ", "\n"}

Highlight(id, textSnippet, riskLevel, remediation) ==
    [id |-> id, textSnippet |-> textSnippet, riskLevel |-> riskLevel,
     remediation |-> remediation]

ViewDocument(content, snippet1, snippet2) ==
    [content |-> content,
     highlights |-> <<Highlight("h1", snippet1, "HIGH", <<>>),
                      Highlight("h2", snippet2, "MEDIUM", <<>>)>>]

\* text, marker 1, text, marker 12, text
MarkerContent(before, first, second) ==
    before \o Marker1 \o <<"\n">> \o first \o Marker12 \o <<"\n">> \o second

InitView ==
    /\ pc = "start"
    /\ \/ \E c \in StringsUpTo(ViewChars, MaxViewTotal) :
          \E s1 \in StringsUpTo(ViewChars, MaxViewTotal - Len(c)) :
          \E s2 \in StringsUpTo(ViewChars, MaxViewTotal - Len(c) - Len(s1)) :
              document = ViewDocument(c, s1, s2)
       \/ \E x \in StringsUpTo(MarkerViewChars, MaxMarkerViewTotal) :
          \E y \in StringsUpTo(MarkerViewChars, MaxMarkerViewTotal - Len(x)) :
          \E z \in StringsUpTo(MarkerViewChars, MaxMarkerViewTotal - Len(x) - Len(y)) :
          \E s1 \in StringsUpTo(MarkerViewChars, MaxMarkerViewTotal - Len(x) - Len(y) - Len(z)) :
          \E s2 \in StringsUpTo(MarkerViewChars,
                                MaxMarkerViewTotal - Len(x) - Len(y) - Len(z) - Len(s1)) :
              document = ViewDocument(MarkerContent(x, y, z), s1, s2)
       \/ \E c \in StringsUpTo(MarkerViewChars, MaxBlankViewTotal) :
          \E s1 \in StringsUpTo(MarkerViewChars, MaxBlankViewTotal - Len(c)) :
          \E s2 \in StringsUpTo(MarkerViewChars, MaxBlankViewTotal - Len(c) - Len(s1)) :
              document = ViewDocument(c, s1, s2)
    /\ snippet = <<>>
    /\ found = -1
    /\ pageList = <<>>
    /\ rendered = <<>>
    /\ composed = <<>>
    /\ selectedHighlightId = null
    /\ AppIdle

\* the render pass
Render ==
    /\ pc = "start"
    /\ pageList' = pages(document)
    /\ rendered' = [k \in 1..Len(pages(document)) |->
                       renderPageContent(pages(document)[k].text,
                                         pages(document)[k].startIndex)]
    /\ composed' = [k \in 1..Len(pages(document)) |->
                       highlightsWithIndices(pages(document)[k].text,
                                             pages(document)[k].startIndex)]
    /\ pc' = "rendered"
    /\ UNCHANGED <<document, snippet, found, selectedHighlightId>>
    /\ UNCHANGED appVars

NextView == Render

SpecView == InitView /\ [][NextView]_vars

(***************************************************************************)
(* Locator runs: one call of findSnippetIndex on a generated content and   *)
(* snippet.                                                                *)
(***************************************************************************)
LocatorChars == {"a", "b", " "}

\* "The fee is 10% monthly."
FeeContent ==
    <<"T", "h", "e", " ", "f", "e", "e", " ", "i", "s", " ", "1", "0", "%", " ",
      "m", "o", "n", "t", "h", "l", "y", ".">>

\* "fee is 10%  monthly", with two spaces in front of monthly
FeeSnippet ==
    <<"f", "e", "e", " ", "i", "s", " ", "1", "0", "%", " ", " ",
      "m", "o", "n", "t", "h", "l", "y">>

InitLocate ==
    /\ pc = "start"
    /\ \/ /\ \E c \in StringsUpTo(LocatorChars, MaxContentLen) :
                 document = [content |-> c, highlights |-> <<>>]
          /\ snippet \in StringsUpTo(LocatorChars, MaxSnippetLen)
       \/ /\ document = [content |-> FeeContent, highlights |-> <<>>]
          /\ snippet = FeeSnippet
    /\ found = -1
    /\ pageList = <<>>
    /\ rendered = <<>>
    /\ composed = <<>>
    /\ selectedHighlightId = null
    /\ AppIdle

Locate ==
    /\ pc = "start"
    /\ found' = findSnippetIndex(document.content, snippet)
    /\ pc' = "located"
    /\ UNCHANGED <<document, snippet, pageList, rendered, composed, selectedHighlightId>>
    /\ UNCHANGED appVars

NextLocate == Locate

SpecLocate == InitLocate /\ [][NextLocate]_vars

(***************************************************************************)
(* The review workflow: App holds the documents, the selected document and *)
(* the view; the DocumentViewer of the active document holds the selected  *)
(* highlight and renders the pages; its ActionPanel shows the checklist,   *)
(* the success message, the plan or the wizard, and commits a plan from a  *)
(* setTimeout callback that keeps the props of the render in which Save    *)
(* was clicked.  A handler and the render pass that follows it are one     *)
(* step.  The classes that fold or hide the panel (isPanelExpanded) and    *)
(* the fields of the form are not modelled: every element that is rendered *)
(* and not disabled can be clicked, and the plan saved is the suggested    *)
(* one.                                                                    *)
(***************************************************************************)
MaxTimers == 1          \* most setTimeout callbacks pending at once
MaxLogs == 3            \* most ActionLog entries created in a run

RiskLevels == {"HIGH", "MEDIUM", "LOW", "NEUTRAL"}

Document(id, status, content, highlights, history) ==
    [id |-> id, status |-> status, content |-> content, highlights |-> highlights,
     history |-> history]

\* the document variable while no DocumentViewer is mounted
NoDocument == Document(null, null, undefined, <<>>, <<>>)

ActionLog(action, note) ==
    [id |-> <<"log-", now>>, user |-> "Você", action |-> action, note |-> note]

\* applySmartDefaults: the suggested priority
suggestedPriority(highlight) ==
    IF highlight.riskLevel = "HIGH" THEN "HIGH"
    ELSE IF highlight.riskLevel = "LOW" THEN "LOW"
    ELSE "MEDIUM"

\* the plan handleSaveRemediation of the panel builds from the form
RemediationPlan(highlight) ==
    [actionType |-> "REVISION", priority |-> suggestedPriority(highlight),
     assignee |-> "Não atribuído", status |-> "PENDING"]

\* the state of a panel that has just mounted
PanelStart ==
    [currentStep |-> 1, isSubmitting |-> FALSE, showSuccess |-> FALSE,
     isEditing |-> FALSE]

\* documents.find(d => d.id === selectedDocId), as a sequence of at most one
activeDoc == SelectSeq(documents, LAMBDA d : d.id = selectedDocId)

\* view === 'VIEWER' && activeDoc: the DocumentViewer is rendered
ViewerMounted == view = "VIEWER" /\ activeDoc # <<>>

\* document.highlights.find(h => h.id === selectedHighlightId) || null, as a
\* sequence of at most one
selectedHighlight ==
    SelectSeq(document.highlights, LAMBDA h : h.id = selectedHighlightId)

risks(doc) ==
    SelectSeq(doc.highlights, LAMBDA h : h.riskLevel # "LOW" /\ h.riskLevel # "NEUTRAL")

resolvedCount(doc) == Len(SelectSeq(risks(doc), LAMBDA h : h.remediation # <<>>))

\* a Finalizar Documento button that is never disabled
validateNeverDisabled(doc) == FALSE

\* the disabled attribute of the Finalizar Documento button
validateDisabled(doc) == resolvedCount(doc) < Len(risks(doc))

\* which of its returns the ActionPanel renders
PanelScreen ==
    IF ~ViewerMounted THEN "none"
    ELSE IF selectedHighlight = <<>>
    THEN (IF document.status = "APPROVED" THEN "finalized" ELSE "checklist")
    ELSE IF panel.showSuccess THEN "success"
    ELSE IF selectedHighlight[1].remediation # <<>> /\ ~panel.isEditing THEN "readonly"
    ELSE "wizard"

\* the effect on [selectedHighlight]
selectionEffect(p) ==
    [p EXCEPT !.showSuccess = FALSE, !.isEditing = FALSE, !.currentStep = 1]

\* setDocuments(prev => prev.map(d => d.id === updatedDoc.id ? updatedDoc : d))
handleUpdateDocument(prev, updatedDoc) ==
    [i \in 1..Len(prev) |-> IF prev[i].id = updatedDoc.id THEN updatedDoc ELSE prev[i]]

\* handleSaveRemediation of the viewer: the record it hands to onUpdateDocument
handleSaveRemediation(doc, highlightId, plan) ==
    [doc EXCEPT
       !.status = IF doc.status = "IN_ANALYSIS" \/ doc.status = "INBOX"
                  THEN "IN_PLANNING" ELSE doc.status,
       !.highlights = [i \in 1..Len(doc.highlights) |->
                          IF doc.highlights[i].id = highlightId
                          THEN [doc.highlights[i] EXCEPT !.remediation = <<plan>>]
                          ELSE doc.highlights[i]],
       !.history = <<ActionLog("PLAN_CREATED",
                               <<"Ação registrada: ", plan.actionType, " - ",
                                 plan.assignee>>)>> \o doc.history]

\* handleGlobalAction: the record it hands to onUpdateDocument
handleGlobalAction(doc, action, note) ==
    [doc EXCEPT
       !.history = <<ActionLog(action, note)>> \o doc.history,
       !.status = IF action = "VALIDATE" THEN "APPROVED" ELSE "IN_PLANNING"]

\* the document prop of the viewer
ViewerDocument == IF ViewerMounted THEN activeDoc[1] ELSE NoDocument

\* what the mounted viewer shows, a function of its props and state: the pages
\* memo and the elements of every page
ViewerPages == IF document = NoDocument THEN <<>> ELSE pages(document)

ViewerRendered ==
    [k \in 1..Len(ViewerPages) |->
        renderPageContent(ViewerPages[k].text, ViewerPages[k].startIndex)]

\* a member of a JSON object, as a sequence of at most one name/value pair
member(object, name) == SelectSeq(object, LAMBDA p : p[1] = name)

\* JSON.stringify of a highlight and of a document: the name/value pairs of the
\* object, a member whose value is undefined is left out
stringifyHighlight(h) ==
    <<<<"id", h.id>>, <<"textSnippet", h.textSnippet>>, <<"riskLevel", h.riskLevel>>>>
        \o (IF h.remediation = <<>> THEN <<>>
            ELSE <<<<"remediation", h.remediation[1]>>>>)

stringifyDocument(d) ==
    <<<<"id", d.id>>, <<"status", d.status>>>>
        \o (IF d.content = undefined THEN <<>> ELSE <<<<"content", d.content>>>>)
        \o <<<<"highlights", [i \in 1..Len(d.highlights) |->
                                stringifyHighlight(d.highlights[i])]>>,
             <<"history", d.history>>>>

\* JSON.stringify(documents): a text that parses
JSONstringify(docs) ==
    [valid |-> TRUE, value |-> [i \in 1..Len(docs) |-> stringifyDocument(docs[i])]]

\* a stored text JSON.parse throws on
Unparseable == [valid |-> FALSE, value |-> <<>>]

parseHighlight(o) ==
    [id |-> member(o, "id")[1][2],
     textSnippet |-> member(o, "textSnippet")[1][2],
     riskLevel |-> member(o, "riskLevel")[1][2],
     remediation |-> IF member(o, "remediation") = <<>> THEN <<>>
                     ELSE <<member(o, "remediation")[1][2]>>]

parseDocument(o) ==
    Document(member(o, "id")[1][2], member(o, "status")[1][2],
             IF member(o, "content") = <<>> THEN undefined
             ELSE member(o, "content")[1][2],
             [i \in 1..Len(member(o, "highlights")[1][2]) |->
                 parseHighlight(member(o, "highlights")[1][2][i])],
             member(o, "history")[1][2])

\* JSON.parse of a text that parses
JSONparse(text) == [i \in 1..Len(text.value) |-> parseDocument(text.value[i])]

\* localStorage.setItem inside the try of the save effect: the store after it.
\* It throws when the text does not fit; the catch only logs.
setItem(store, text, quota) ==
    IF quota # <<>> /\ Len(text.value) > quota[1] THEN store ELSE <<text>>

\* the render pass after a handler has set documents, selectedDocId and view:
\* the viewer gets its document prop and the effect on [documents] saves the
\* list; the variables of the other runs stay
AppRender ==
    /\ document' = ViewerDocument'
    /\ storage' = IF documents' # documents
                  THEN setItem(storage, JSONstringify(documents'), env.quota)
                  ELSE storage
    /\ UNCHANGED <<pc, snippet, found, pageList, rendered, composed, env, pdf>>

\* the render pass after a handler of the viewer or of the panel
RenderViewer ==
    /\ AppRender
    /\ UNCHANGED <<pendingFile, upload, runs>>

ReviewContent == <<"a", " ", "b">>

InitReview ==
    /\ pc = "review"
    /\ \E r1 \in RiskLevels : \E r2 \in {"MEDIUM", "LOW"} :
           documents =
               <<Document("d1", "INBOX", ReviewContent,
                          <<Highlight("h1", <<"a">>, r1, <<>>),
                            Highlight("h2", <<"b">>, r2, <<>>)>>, <<>>),
                 Document("d2", "COMPLIANT", <<>>, <<>>, <<>>)>>
    /\ selectedDocId = null
    /\ view = "DASHBOARD"
    /\ panel = PanelStart
    /\ timers = <<>>
    /\ now = 0
    /\ pendingFile = <<>>
    /\ upload = UploadStart
    /\ runs = <<>>
    /\ storage = <<JSONstringify(documents)>>
    /\ env = [copy |-> "part_000", quota |-> <<>>, stored |-> storage]
    /\ pdf = <<>>
    /\ document = NoDocument
    /\ selectedHighlightId = null
    /\ pageList = <<>>
    /\ rendered = <<>>
    /\ composed = <<>>
    /\ snippet = <<>>
    /\ found = -1

\* an opening that moves every document to IN_ANALYSIS
handleSelectDocumentAnyStatus(prev, doc) ==
    handleUpdateDocument(prev, [doc EXCEPT !.status = "IN_ANALYSIS"])

\* handleSelectDocument: the documents after it
handleSelectDocument(prev, doc) ==
    IF doc.status = "INBOX"
    THEN handleUpdateDocument(prev, [doc EXCEPT !.status = "IN_ANALYSIS"])
    ELSE prev

\* handleSelectDocument: a row of the dashboard or of the library is clicked
SelectDocument ==
    /\ pc # "constructed"
    /\ view \in {"DASHBOARD", "LIBRARY"}
    /\ \E i \in 1..Len(documents) :
           LET doc == documents[i] IN
           /\ documents' = handleSelectDocument(documents, doc)
           /\ selectedDocId' = doc.id
    /\ view' = "VIEWER"
    /\ selectedHighlightId' = null
    /\ panel' = PanelStart
    /\ UNCHANGED <<timers, now>>
    /\ RenderViewer

\* onBack: the viewer unmounts, its pending callbacks stay scheduled
Back ==
    /\ ViewerMounted
    /\ view' = "LIBRARY"
    /\ selectedDocId' = null
    /\ selectedHighlightId' = null
    /\ panel' = PanelStart
    /\ timers' = [k \in 1..Len(timers) |-> [timers[k] EXCEPT !.mounted = FALSE]]
    /\ UNCHANGED <<documents, now>>
    /\ RenderViewer

\* a card of the list or a <mark> is clicked: setSelectedHighlightId
ClickHighlight ==
    /\ ViewerMounted
    /\ \E n \in 1..Len(document.highlights) :
           /\ document.highlights[n].id # selectedHighlightId
           /\ selectedHighlightId' = document.highlights[n].id
    /\ panel' = selectionEffect(panel)
    /\ UNCHANGED <<documents, selectedDocId, view, timers, now>>
    /\ RenderViewer

\* onClose: the X of the plan or of the wizard
ClosePanel ==
    /\ PanelScreen \in {"readonly", "wizard"}
    /\ selectedHighlightId' = null
    /\ panel' = selectionEffect(panel)
    /\ UNCHANGED <<documents, selectedDocId, view, timers, now>>
    /\ RenderViewer

\* handleNextStep
NextStep ==
    /\ PanelScreen = "wizard"
    /\ ~panel.isSubmitting
    /\ panel.currentStep < 3
    /\ panel' = [panel EXCEPT !.currentStep = @ + 1]
    /\ UNCHANGED <<documents, selectedDocId, view, timers, now,
                   selectedHighlightId>>
    /\ RenderViewer

\* handlePrevStep
PrevStep ==
    /\ PanelScreen = "wizard"
    /\ panel.currentStep > 1
    /\ panel' = [panel EXCEPT !.currentStep = @ - 1]
    /\ UNCHANGED <<documents, selectedDocId, view, timers, now,
                   selectedHighlightId>>
    /\ RenderViewer

\* handleSaveRemediation of the panel: Save is clicked on step 3; the callback
\* keeps the selected highlight, the plan and, through onSaveRemediation, the
\* document of this render
SaveClick ==
    /\ PanelScreen = "wizard"
    /\ ~panel.isSubmitting
    /\ panel.currentStep = 3
    /\ Len(timers) < MaxTimers
    /\ panel' = [panel EXCEPT !.isSubmitting = TRUE]
    /\ timers' = Append(timers, [highlightId |-> selectedHighlight[1].id,
                                 plan |-> RemediationPlan(selectedHighlight[1]),
                                 document |-> document,
                                 mounted |-> TRUE])
    /\ UNCHANGED <<documents, selectedDocId, view, now,
                   selectedHighlightId>>
    /\ RenderViewer

\* the setTimeout callback, 600 ms after the click: onSaveRemediation, that is
\* handleSaveRemediation of the viewer and handleUpdateDocument of App, then the
\* panel's setters if it is still mounted.  When the selected highlight is a
\* new object the effect on [selectedHighlight] runs; whether it runs before or
\* after setShowSuccess(true) depends on the batching of the React build.
TimerFires ==
    /\ timers # <<>>
    /\ now < MaxLogs
    /\ LET t == Head(timers)
           updatedDoc == handleSaveRemediation(t.document, t.highlightId, t.plan)
           settled == IF t.mounted
                      THEN [panel EXCEPT !.isSubmitting = FALSE, !.showSuccess = TRUE,
                                         !.isEditing = FALSE]
                      ELSE panel
       IN  /\ documents' = handleUpdateDocument(documents, updatedDoc)
           /\ timers' = Tail(timers)
           /\ now' = now + 1
           /\ UNCHANGED <<selectedDocId, view, selectedHighlightId>>
           /\ RenderViewer
           /\ IF selectedHighlight' # <<>>
                 /\ (selectedHighlight' # selectedHighlight
                     \/ (selectedHighlightId = t.highlightId
                         /\ document.id = t.document.id))
              THEN panel' \in {selectionEffect(settled),
                               [selectionEffect(settled) EXCEPT
                                   !.showSuccess = settled.showSuccess]}
              ELSE panel' = settled

\* Visualizar Plano on the success message
ViewPlan ==
    /\ PanelScreen = "success"
    /\ panel' = [panel EXCEPT !.showSuccess = FALSE]
    /\ UNCHANGED <<documents, selectedDocId, view, timers, now,
                   selectedHighlightId>>
    /\ RenderViewer

\* Editar Plano on the plan
EditPlan ==
    /\ PanelScreen = "readonly"
    /\ panel' = [panel EXCEPT !.isEditing = TRUE]
    /\ UNCHANGED <<documents, selectedDocId, view, timers, now,
                   selectedHighlightId>>
    /\ RenderViewer

\* Cancelar Edição in the wizard
CancelEdit ==
    /\ PanelScreen = "wizard"
    /\ panel.isEditing
    /\ panel' = [panel EXCEPT !.isEditing = FALSE]
    /\ UNCHANGED <<documents, selectedDocId, view, timers, now,
                   selectedHighlightId>>
    /\ RenderViewer

\* Finalizar Documento on the checklist: onGlobalAction('VALIDATE', ...)
Validate ==
    /\ PanelScreen = "checklist"
    /\ ~validateDisabled(document)
    /\ now < MaxLogs
    /\ documents' = handleUpdateDocument(documents,
                        handleGlobalAction(document, "VALIDATE",
                            "Documento validado após verificação do plano de ação."))
    /\ now' = now + 1
    /\ UNCHANGED <<selectedDocId, view, timers, panel,
                   selectedHighlightId>>
    /\ RenderViewer

NextReview ==
    \/ SelectDocument
    \/ Back
    \/ ClickHighlight
    \/ ClosePanel
    \/ NextStep
    \/ PrevStep
    \/ SaveClick
    \/ TimerFires
    \/ ViewPlan
    \/ EditPlan
    \/ CancelEdit
    \/ Validate

SpecReview == InitReview /\ [][NextReview]_vars

(***************************************************************************)
(* App and DocumentUpload: navigation, the processFile runs, localStorage. *)
(* The repository holds two copies of DocumentUpload, src/unnamed/part_000 *)
(* and src/components/DocumentUpload.tsx; env.copy says which one the      *)
(* build has.                                                              *)
(***************************************************************************)
MaxUploads == 2         \* most processFile runs started and not failed in a run of the app
MaxStored == 2          \* documents localStorage has room for when it is nearly full

MinCleanLength == 50
MaxCleanLength == 80000

Nul == "NUL"

Repeat(c, n) == [i \in 1..n |-> c]

\* the files the user picks: one the FileReader fails on, one blank, one whose
\* text is long only through its runs of spaces, one with enough text; and the
\* overallRisk the analysis finds in the text when it answers
Files ==
    {[name |-> "broken.txt", readable |-> FALSE, text |-> <<>>, overallRisk |-> "LOW"],
     [name |-> "blank.txt", readable |-> TRUE, text |-> <<" ", "\n">>,
      overallRisk |-> "LOW"],
     [name |-> "spaced.txt", readable |-> TRUE,
      text |-> <<"a", Nul>> \o Repeat(" ", MinCleanLength) \o <<"b">>,
      overallRisk |-> "LOW"],
     [name |-> "long.txt", readable |-> TRUE, text |-> Repeat("a", MinCleanLength),
      overallRisk |-> "HIGH"]}

\* readFileContent, the FileReader branch: the text it resolves with, none when
\* it rejects
readFileContent(copy, file) ==
    IF ~file.readable THEN <<>>
    ELSE IF copy = "part_000"
    THEN (IF Len(trim(file.text)) > 0 THEN <<file.text>> ELSE <<>>)
    ELSE (IF file.text # <<>> THEN <<file.text>> ELSE <<>>)

\* replace(/\s\s+/g, ' ')
RECURSIVE collapseSpaces(_)
collapseSpaces(s) ==
    IF s = <<>> THEN <<>>
    ELSE IF Len(s) >= 2 /\ IsSpace(s[1]) /\ IsSpace(s[2])
    THEN <<" ">> \o collapseSpaces(trimStart(s))
    ELSE <<s[1]>> \o collapseSpaces(Tail(s))

\* rawText.replace(/\0/g, '').replace(/\s\s+/g, ' ').slice(0, 80000)
cleanText(rawText) ==
    LET collapsed == collapseSpaces(SelectSeq(rawText, LAMBDA c : c # Nul))
    IN  SubSeq(collapsed, 1, IF Len(collapsed) < MaxCleanLength THEN Len(collapsed)
                             ELSE MaxCleanLength)

\* a processFile that takes any text it could read
insufficientNever(copy, rawText) == FALSE

\* the throw of processFile between the reading and the analysis
insufficient(copy, rawText) ==
    IF copy = "part_000"
    THEN Len(cleanText(rawText)) < MinCleanLength
    ELSE Len(trim(rawText)) = 0

\* the statuses of a new document
initialStatus(overallRisk) ==
    IF overallRisk = "HIGH" \/ overallRisk = "MEDIUM" THEN "INBOX" ELSE "COMPLIANT"

\* `doc-${Date.now()}`
DocIds == <<"doc-1", "doc-2", "doc-3", "doc-4", "doc-5", "doc-6">>

\* MOCK_DOCUMENTS, two of them, with short contents
MOCK_DOCUMENTS ==
    <<Document("doc-001", "INBOX", <<"a", " ", "b">>,
               <<Highlight("h1", <<"a">>, "HIGH", <<>>)>>, <<>>),
      Document("doc-007", "RISK_WARNING", <<"c">>, <<>>, <<>>)>>

\* an App that always starts with the mock documents
initialDocumentsMocksOnly(store) == MOCK_DOCUMENTS

\* the lazy initial state of documents
initialDocuments(store) ==
    IF store # <<>> /\ store[1].valid THEN JSONparse(store[1]) ELSE MOCK_DOCUMENTS

\* what localStorage may hold when the app starts: nothing, a text that does
\* not parse, an empty list, a list saved by an earlier session
StoredValues ==
    {<<>>, <<Unparseable>>, <<JSONstringify(<<>>)>>,
     <<JSONstringify(<<Document("doc-9", "IN_PLANNING", <<"a">>,
                                 <<Highlight("h1", <<"a">>, "HIGH",
                                             <<RemediationPlan([riskLevel |-> "HIGH"])>>)>>,
                                 <<>>)>>)>>}

InitApp ==
    /\ pc = "constructed"
    /\ env \in [copy : {"part_000", "DocumentUpload.tsx"},
                quota : {<<>>, <<MaxStored>>},
                stored : StoredValues]
    /\ storage = env.stored
    /\ documents = initialDocuments(storage)
    /\ selectedDocId = null
    /\ view = "DASHBOARD"
    /\ pendingFile = <<>>
    /\ upload = UploadStart
    /\ runs = <<>>
    /\ panel = PanelStart
    /\ timers = <<>>
    /\ now = 0
    /\ pdf = <<>>
    /\ document = NoDocument
    /\ selectedHighlightId = null
    /\ pageList = <<>>
    /\ rendered = <<>>
    /\ composed = <<>>
    /\ snippet = <<>>
    /\ found = -1

\* the first commit: the effect on [documents] saves the list
Mount ==
    /\ pc = "constructed"
    /\ pc' = "app"
    /\ storage' = setItem(storage, JSONstringify(documents), env.quota)
    /\ UNCHANGED <<document, snippet, found, pageList, rendered, composed,
                   selectedHighlightId, documents, selectedDocId, view, panel, timers,
                   now, pendingFile, upload, runs, env, pdf>>

\* the runs after their DocumentUpload has unmounted: they go on, their setters
\* do nothing
Unmounted(rs) == [k \in 1..Len(rs) |-> [rs[k] EXCEPT !.mounted = FALSE]]

Without(rs, i) == SubSeq(rs, 1, i - 1) \o SubSeq(rs, i + 1, Len(rs))

\* the synchronous part of processFile, up to the await of the reading
processFile(file) ==
    /\ Len(runs) + now < MaxUploads
    /\ upload' = [upload EXCEPT !.isProcessing = TRUE, !.progressStep = 1,
                                !.errorMessage = null]
    /\ runs' = Append(runs, [file |-> file, stage |-> "reading", mounted |-> TRUE,
                             newDoc |-> <<>>])

\* a view change that keeps the selection
handleChangeViewKeepsSelection(newView) ==
    /\ view' = newView
    /\ selectedDocId' = selectedDocId
    /\ pendingFile' = <<>>

\* handleChangeView
handleChangeView(newView) ==
    /\ view' = newView
    /\ selectedDocId' = null
    /\ pendingFile' = <<>>

\* an item of the sidebar or its upload button is clicked; the view that goes
\* unmounts
ChangeView ==
    /\ pc = "app"
    /\ \E newView \in {"DASHBOARD", "LIBRARY", "AUDIT", "UPLOAD"} :
           /\ handleChangeView(newView)
           /\ IF view = "UPLOAD" /\ newView # "UPLOAD"
              THEN upload' = UploadStart /\ runs' = Unmounted(runs)
              ELSE UNCHANGED <<upload, runs>>
    /\ selectedHighlightId' = null
    /\ panel' = PanelStart
    /\ timers' = [k \in 1..Len(timers) |-> [timers[k] EXCEPT !.mounted = FALSE]]
    /\ UNCHANGED <<documents, now>>
    /\ AppRender

\* handleQuickUpload: a file is picked on the dashboard; the DocumentUpload that
\* mounts gets it as initialFile and its effect on [initialFile] starts a run
QuickUpload ==
    /\ pc = "app"
    /\ view = "DASHBOARD"
    /\ \E file \in Files :
           /\ pendingFile' = <<file>>
           /\ IF ~UploadStart.isProcessing /\ UploadStart.processedFileRef # file.name
              THEN /\ Len(runs) + now < MaxUploads
                   /\ upload' = [UploadStart EXCEPT !.isProcessing = TRUE,
                                    !.progressStep = 1, !.processedFileRef = file.name]
                   /\ runs' = Append(runs, [file |-> file, stage |-> "reading",
                                            mounted |-> TRUE, newDoc |-> <<>>])
              ELSE UNCHANGED <<upload, runs>>
    /\ view' = "UPLOAD"
    /\ UNCHANGED <<documents, selectedDocId, selectedHighlightId, panel, timers, now>>
    /\ AppRender

\* the file input of the drop zone: disabled={isProcessing}
fileInputDisabled == upload.isProcessing

\* handleFileSelect
FileSelect ==
    /\ pc = "app"
    /\ view = "UPLOAD"
    /\ ~fileInputDisabled
    /\ \E file \in Files : processFile(file)
    /\ UNCHANGED <<documents, selectedDocId, view, pendingFile, selectedHighlightId,
                   panel, timers, now>>
    /\ AppRender

\* a drop zone that takes drops at any time
dropZoneAlwaysOpen == TRUE

\* the drop zone is a target of the drop: it has the class pointer-events-none
\* while isProcessing
dropZoneOpen == ~upload.isProcessing

\* handleDrop
Drop ==
    /\ pc = "app"
    /\ view = "UPLOAD"
    /\ dropZoneOpen
    /\ \E file \in Files : processFile(file)
    /\ UNCHANGED <<documents, selectedDocId, view, pendingFile, selectedHighlightId,
                   panel, timers, now>>
    /\ AppRender

\* Tentar Novamente on the error message
Retry ==
    /\ pc = "app"
    /\ view = "UPLOAD"
    /\ upload.errorMessage # null
    /\ upload' = IF env.copy = "part_000"
                 THEN [upload EXCEPT !.errorMessage = null, !.isProcessing = FALSE,
                                     !.progressStep = 0]
                 ELSE [upload EXCEPT !.errorMessage = null]
    /\ UNCHANGED <<documents, selectedDocId, view, pendingFile, runs,
                   selectedHighlightId, panel, timers, now>>
    /\ AppRender

\* the catch of processFile: the run ends, the setters act on a mounted
\* component only
Fails(i, message) ==
    /\ runs' = Without(runs, i)
    /\ upload' = IF runs[i].mounted
                 THEN [upload EXCEPT !.errorMessage = message, !.isProcessing = FALSE,
                                     !.progressStep = 0]
                 ELSE upload

\* the reading of a run settles: processFile goes on to the analysis or throws
ReadDone ==
    /\ pc = "app"
    /\ \E i \in 1..Len(runs) :
           LET rawText == readFileContent(env.copy, runs[i].file) IN
           /\ runs[i].stage = "reading"
           /\ IF rawText = <<>>
              THEN Fails(i, "Erro de leitura")
              ELSE IF insufficient(env.copy, rawText[1])
              THEN Fails(i, "Conteúdo insuficiente para análise.")
              ELSE /\ runs' = [runs EXCEPT ![i].stage = "analysing"]
                   /\ upload' = IF runs[i].mounted
                                THEN [upload EXCEPT !.progressStep = 2]
                                ELSE upload
    /\ UNCHANGED <<documents, selectedDocId, view, pendingFile, selectedHighlightId,
                   panel, timers, now>>
    /\ AppRender

\* analyzeDocumentWithGemini settles: it throws, or processFile builds newDoc
\* and sets the 800 ms timer
AnalysisDone ==
    /\ pc = "app"
    /\ \E i \in 1..Len(runs) :
           /\ runs[i].stage = "analysing"
           /\ \/ /\ Fails(i, "Chave de API ausente. Por favor, selecione uma chave.")
                 /\ now' = now
              \/ LET overallRisk == runs[i].file.overallRisk IN
                    /\ now' = now + 1
                    /\ runs' = [runs EXCEPT
                                   ![i].stage = "timer",
                                   ![i].newDoc =
                                       <<Document(DocIds[now'],
                                                  initialStatus(overallRisk),
                                                  readFileContent(env.copy,
                                                                  runs[i].file)[1],
                                                  <<>>, <<>>)>>]
                    /\ upload' = IF runs[i].mounted
                                 THEN [upload EXCEPT !.progressStep = 3]
                                 ELSE upload
    /\ UNCHANGED <<documents, selectedDocId, view, pendingFile, selectedHighlightId,
                   panel, timers>>
    /\ AppRender

\* handleUploadComplete: the documents after it
handleUploadComplete(prev, newDoc) == <<newDoc>> \o prev

\* the timer of a run fires: onUploadComplete(newDoc), then the setters of the
\* run; App shows the viewer, a mounted DocumentUpload unmounts
UploadTimerFires ==
    /\ pc = "app"
    /\ \E i \in 1..Len(runs) :
           /\ runs[i].stage = "timer"
           /\ documents' = handleUploadComplete(documents, runs[i].newDoc[1])
           /\ selectedDocId' = runs[i].newDoc[1].id
           /\ runs' = Unmounted(Without(runs, i))
    /\ pendingFile' = <<>>
    /\ view' = "VIEWER"
    /\ upload' = UploadStart
    /\ UNCHANGED <<selectedHighlightId, panel, timers, now>>
    /\ AppRender

NextApp ==
    \/ Mount
    \/ ChangeView
    \/ QuickUpload
    \/ FileSelect
    \/ Drop
    \/ Retry
    \/ ReadDone
    \/ AnalysisDone
    \/ UploadTimerFires
    \/ SelectDocument
    \/ Back

SpecApp == InitApp /\ [][NextApp]_vars

(***************************************************************************)
(* PDF extraction (readPdfContent of src/unnamed/part_000) followed by the *)
(* pages memo of the viewer.  pdf[i] is the text pdf.js gives for page i,  *)
(* as a sequence of at most one: none when getPage or getTextContent       *)
(* throws.                                                                 *)
(***************************************************************************)
MaxPdfPages == 3        \* most pages of a generated PDF, leading blank pages aside

MinPdfLength == 50

DigitChars == <<"0", "1", "2", "3", "4", "5", "6", "7", "8", "9">>

\* `${i}`
RECURSIVE decimal(_)
decimal(i) ==
    IF i < 10 THEN <<DigitChars[i + 1]>>
    ELSE decimal(i \div 10) \o <<DigitChars[(i % 10) + 1]>>

\* an extraction that writes a marker for a blank page too
pageBlockForBlank(i, pageText) ==
    MarkerPrefix \o decimal(i) \o MarkerSuffix \o <<"\n">> \o pageText \o <<"\n", "\n">>

\* what one turn of the loop adds to fullText
pageBlock(i, pageText) ==
    IF Len(trim(pageText)) > 0
    THEN MarkerPrefix \o decimal(i) \o MarkerSuffix \o <<"\n">> \o pageText
             \o <<"\n", "\n">>
    ELSE <<>>

\* fullText after the turns 1..n of the loop; a page that throws adds nothing
RECURSIVE fullTextAfter(_, _)
fullTextAfter(p, n) ==
    IF n = 0 THEN <<>>
    ELSE fullTextAfter(p, n - 1) \o (IF p[n] = <<>> THEN <<>> ELSE pageBlock(n, p[n][1]))

\* readPdfContent: the text it returns, none when it throws
readPdfContent(p) ==
    LET fullText == fullTextAfter(p, Len(p)) IN
    IF Len(trim(fullText)) < MinPdfLength THEN <<>> ELSE <<fullText>>

\* the texts of a page: blank ones, short ones, one that is long enough for a
\* one-page PDF, one that holds a marker line of its own
PdfTexts ==
    {<<>>, <<" ">>, <<"a">>, <<"\n", "a", " ">>, <<"-", "-", "-">>,
     Repeat("a", MinPdfLength), <<"b">> \o Marker1}

PdfPageValues == {<<>>} \cup {<<t>> : t \in PdfTexts}

InitPdf ==
    /\ pc = "file"
    /\ \E lead \in {0, 9} : \E p \in StringsUpTo(PdfPageValues, MaxPdfPages) :
           pdf = Repeat(<<<<>>>>, lead) \o p
    /\ document = [content |-> undefined, highlights |-> <<>>]
    /\ snippet = <<>>
    /\ found = -1
    /\ pageList = <<>>
    /\ rendered = <<>>
    /\ composed = <<>>
    /\ selectedHighlightId = null
    /\ documents = <<>>
    /\ selectedDocId = null
    /\ view = "DASHBOARD"
    /\ panel = PanelStart
    /\ timers = <<>>
    /\ now = 0
    /\ pendingFile = <<>>
    /\ upload = UploadStart
    /\ runs = <<>>
    /\ storage = <<>>
    /\ env = NoEnv

\* readPdfContent returns, the text becomes the content of the document the
\* viewer is given; or it throws
ReadPdf ==
    /\ pc = "file"
    /\ LET fullText == readPdfContent(pdf) IN
       IF fullText = <<>>
       THEN pc' = "failed" /\ UNCHANGED document
       ELSE pc' = "start" /\ document' = [content |-> fullText[1], highlights |-> <<>>]
    /\ UNCHANGED <<snippet, found, pageList, rendered, composed, selectedHighlightId>>
    /\ UNCHANGED appVars

NextPdf == ReadPdf \/ Paginate

SpecPdf == InitPdf /\ [][NextPdf]_vars

(***************************************************************************)
(* C1: when the snippet is an exact contiguous substring of the content,   *)
(* findSnippetIndex returns the offset of its first occurrence.            *)
(***************************************************************************)
ExactOffsets(content, snip) ==
    {i \in 0..Len(content) : OccursAt(content, snip, i)}

C1_ExactFirstOccurrence ==
    (pc = "located" /\ ExactOffsets(document.content, snippet) # {})
        => found = Min(ExactOffsets(document.content, snippet))

\* a located snippet that occurs twice, the first time not at offset 0
C1_Witness ==
    /\ pc = "located"
    /\ Cardinality(ExactOffsets(document.content, snippet)) >= 2
    /\ found > 0
    /\ Len(snippet) >= 2

(***************************************************************************)
(* C2: a snippet obtained from the substring of content at offset s by     *)
(* inserting or removing whitespace is located at s, provided its          *)
(* compacted characters do not fully match earlier in content.  This is    *)
(* the claim as stated; the code does not satisfy it.                      *)
(***************************************************************************)
\* the substrings <<s, l>> of content that snip has the non-whitespace
\* characters of, in order
DerivedFrom(content, snip) ==
    {sl \in (0..Len(content)) \X (0..Len(content)) :
        /\ sl[1] + sl[2] <= Len(content)
        /\ stripWhitespace(SubSeq(content, sl[1] + 1, sl[1] + sl[2]))
               = stripWhitespace(snip)}

\* the non-whitespace characters of content from offset p on begin with clean,
\* and content[p] is one of them
CompactMatchAt(content, clean, p) ==
    /\ p < Len(content)
    /\ ~IsSpace(content[p + 1])
    /\ LET rest == stripWhitespace(SubSeq(content, p + 1, Len(content))) IN
       /\ Len(rest) >= Len(clean)
       /\ SubSeq(rest, 1, Len(clean)) = clean

\* read in the claim's favour: the snippet has a non-whitespace character, and
\* it is enough that the result is the start of one of the substrings the
\* snippet derives from that has no compacted match before it (a substring may
\* or may not include the whitespace in front of its characters)
C2_Original ==
    (/\ pc = "located"
     /\ stripWhitespace(snippet) # <<>>
     /\ DerivedFrom(document.content, snippet) # {})
        => \E sl \in DerivedFrom(document.content, snippet) :
               /\ ~\E p \in 0..(sl[1] - 1) :
                      CompactMatchAt(document.content, stripWhitespace(snippet), p)
               /\ found = sl[1]

(***************************************************************************)
(* C2 as amended: the snippet has a non-whitespace character, the          *)
(* substring starts at s with a non-whitespace character, the exact search *)
(* fails or finds s, and no match attempt begun at an earlier character is *)
(* still in progress when the scan reaches s; then the locator returns s.  *)
(***************************************************************************)
\* how many characters of clean the attempt in progress has matched once the
\* first i characters of content are read (Len(clean): a full match happened)
RECURSIVE Progress(_, _, _)
Progress(content, clean, i) ==
    IF i = 0 THEN 0
    ELSE LET k == Progress(content, clean, i - 1)
             ch == content[i]
         IN  IF k = Len(clean) THEN k
             ELSE IF IsSpace(ch) THEN k
             ELSE IF ch = clean[k + 1] THEN k + 1
             ELSE 0

C2_Precondition(content, snip, s) ==
    /\ stripWhitespace(snip) # <<>>
    /\ s < Len(content)
    /\ ~IsSpace(content[s + 1])
    /\ \/ ExactOffsets(content, snip) = {}
       \/ Min(ExactOffsets(content, snip)) = s
    /\ Progress(content, stripWhitespace(snip), s) = 0

C2_LocatesDerivedSnippet ==
    pc = "located" =>
        \A sl \in DerivedFrom(document.content, snippet) :
            C2_Precondition(document.content, snippet, sl[1]) => found = sl[1]

\* a snippet whose whitespace differs from the document's, located by the
\* whitespace-insensitive path after an abandoned earlier attempt
C2_Witness ==
    /\ pc = "located"
    /\ ExactOffsets(document.content, snippet) = {}
    /\ \E sl \in DerivedFrom(document.content, snippet) :
           /\ C2_Precondition(document.content, snippet, sl[1])
           /\ sl[1] > 0
           /\ found = sl[1]
           /\ \E p \in 0..(sl[1] - 1) :
                  document.content[p + 1] = stripWhitespace(snippet)[1]

(***************************************************************************)
(* Page markers, stated without the scan: for the claims about pages.      *)
(***************************************************************************)
\* a text matching --- Página <digits> --- starts at offset i of t, with d digits
MarkerAtWith(t, i, d) ==
    /\ OccursAt(t, MarkerPrefix, i)
    /\ i + Len(MarkerPrefix) + d <= Len(t)
    /\ \A k \in 1..d : IsDigit(t[i + Len(MarkerPrefix) + k])
    /\ OccursAt(t, MarkerSuffix, i + Len(MarkerPrefix) + d)

MarkerAt(t, i) == \E d \in 1..Len(t) : MarkerAtWith(t, i, d)

ContainsMarker(t) == \E i \in 0..Len(t) : MarkerAt(t, i)

\* the offset right after the marker at offset i, its optional newline included
MarkerEnd(t, i) ==
    LET d == CHOOSE d \in 1..Len(t) : MarkerAtWith(t, i, d)
        e == i + Len(MarkerPrefix) + d + Len(MarkerSuffix)
    IN  IF e < Len(t) /\ t[e + 1] = "\n" THEN e + 1 ELSE e

\* the start of the first marker at or after offset from, else the end of t
NextMarkerStart(t, from) ==
    Min({i \in from..Len(t) : MarkerAt(t, i)} \cup {Len(t)})

PageTexts == [k \in 1..Len(pageList) |-> pageList[k].text]

(***************************************************************************)
(* C3: for 'Page one text.', the marker line of page 2, 'Page two text.'   *)
(* the paginator returns exactly 2 pages, the second with text             *)
(* 'Page two text.' and startIndex right after the marker line.  The code  *)
(* returns one page: the text before the first marker is dropped.          *)
(***************************************************************************)
C3_ScenarioTwoPages ==
    (pc = "paginated" /\ document.content = ScenarioContent)
        => /\ Len(pageList) = 2
           /\ pageList[2].text =
                  <<"P", "a", "g", "e", " ", "t", "w", "o", " ", "t", "e", "x", "t", ".">>
           /\ pageList[2].startIndex = 32

(***************************************************************************)
(* C4: for a non-empty content without page marker, the texts of the pages *)
(* concatenated in order are the content followed by one newline.          *)
(***************************************************************************)
C4_FallbackReconstructs ==
    (/\ pc = "paginated"
     /\ document.content # undefined
     /\ document.content # <<>>
     /\ ~ContainsMarker(document.content))
        => Flatten(PageTexts) = document.content \o <<"\n">>

\* a content without marker that the budget splits, the first page holding
\* two paragraphs
C4_Witness ==
    /\ pc = "paginated"
    /\ document.content # undefined
    /\ ~ContainsMarker(document.content)
    /\ Len(pageList) >= 2
    /\ Len(split(pageList[1].text, "\n")) >= 3
    /\ Flatten(PageTexts) = document.content \o <<"\n">>

(***************************************************************************)
(* C7: the paginator never returns an empty sequence; for empty or missing *)
(* content it returns one page with empty text and startIndex 0.           *)
(***************************************************************************)
C7_NeverEmpty ==
    pc = "paginated" =>
        /\ Len(pageList) >= 1
        /\ document.content \in {undefined, <<>>}
               => pageList = <<[text |-> <<>>, startIndex |-> 0]>>

C7_Witness ==
    /\ pc = "paginated"
    /\ document.content = <<>>
    /\ pageList = <<[text |-> <<>>, startIndex |-> 0]>>

(***************************************************************************)
(* C8: when content contains a page marker, every page starts right after  *)
(* a marker, its text runs to the start of the next marker or the end of   *)
(* content and contains no marker, and startIndex increases strictly.      *)
(***************************************************************************)
C8_MarkerPages ==
    (/\ pc = "paginated"
     /\ document.content # undefined
     /\ ContainsMarker(document.content))
        => /\ \A k \in 1..Len(pageList) :
                  LET p == pageList[k] IN
                  /\ \E i \in 0..Len(document.content) :
                         /\ MarkerAt(document.content, i)
                         /\ p.startIndex = MarkerEnd(document.content, i)
                  /\ p.text = SubSeq(document.content, p.startIndex + 1,
                                     NextMarkerStart(document.content, p.startIndex))
                  /\ ~ContainsMarker(p.text)
           /\ \A k \in 1..(Len(pageList) - 1) :
                  pageList[k].startIndex < pageList[k + 1].startIndex

\* two markers, each followed by text of its own
C8_Witness ==
    /\ pc = "paginated"
    /\ document.content # undefined
    /\ ContainsMarker(document.content)
    /\ Len(pageList) >= 2
    /\ \A k \in 1..Len(pageList) : Len(pageList[k].text) >= 2

(***************************************************************************)
(* The rendered document, for the claims about the compositor.             *)
(***************************************************************************)
\* the lines of page k, and the offset in the page at which line j starts
PageLines(k) == split(pageList[k].text, "\n")

RECURSIVE LineStart(_, _)
LineStart(k, j) ==
    IF j = 1 THEN 0 ELSE LineStart(k, j - 1) + Len(PageLines(k)[j - 1]) + 1

\* the <mark> and <span> children of all lines of all pages, in document order
RECURSIVE PartsOfLines(_)
PartsOfLines(elements) ==
    IF elements = <<>> THEN <<>>
    ELSE Head(elements).parts \o PartsOfLines(Tail(elements))

RECURSIVE PartsOfPages(_)
PartsOfPages(k) ==
    IF k > Len(rendered) THEN <<>>
    ELSE PartsOfLines(rendered[k]) \o PartsOfPages(k + 1)

MarksOf(parts, id) ==
    SelectSeq(parts, LAMBDA e : e.tag = "mark" /\ e.highlight = id)

PartTexts(parts) == [i \in 1..Len(parts) |-> parts[i].text]

HighlightIds == {document.highlights[i].id : i \in 1..Len(document.highlights)}

\* highlight r of page k intersects line j of that page
Intersects(r, k, j) ==
    /\ r.localIndex < LineStart(k, j) + Len(PageLines(k)[j])
    /\ r.localIndex + r.length > LineStart(k, j)

\* highlight r of page k lies within line j of that page
Within(r, k, j) ==
    /\ r.localIndex >= LineStart(k, j)
    /\ r.localIndex + r.length <= LineStart(k, j) + Len(PageLines(k)[j])

(***************************************************************************)
(* C5: when two highlights with overlapping ranges intersect the same      *)
(* line, both are rendered and the emitted spans of the line contain every *)
(* character of the line exactly once.  The code emits the characters      *)
(* that two highlights share twice.  Stated for two ranges of different    *)
(* lengths that lie within the line, so that one is nested in the other or *)
(* they overlap partially, and clipping changes neither.                   *)
(***************************************************************************)
C5_OverlapKeepsLineText ==
    pc = "rendered" =>
        \A k \in 1..Len(rendered) : \A j \in 1..Len(rendered[k]) :
            (/\ rendered[k][j].tag = "p"
             /\ \E a, b \in 1..Len(composed[k]) :
                    /\ a < b
                    /\ composed[k][a].length # composed[k][b].length
                    /\ Within(composed[k][a], k, j)
                    /\ Within(composed[k][b], k, j)
                    /\ Intersects(composed[k][a], k, j)
                    /\ Intersects(composed[k][b], k, j)
                    /\ composed[k][a].localIndex
                           < composed[k][b].localIndex + composed[k][b].length
                    /\ composed[k][b].localIndex
                           < composed[k][a].localIndex + composed[k][a].length)
                => /\ \A id \in HighlightIds : Len(MarksOf(rendered[k][j].parts, id)) = 1
                   /\ Flatten(PartTexts(rendered[k][j].parts)) = PageLines(k)[j]

(***************************************************************************)
(* C6: in the whole rendered document at most one <mark> of a highlight    *)
(* carries the anchor highlight-<id>: the first one in document order; no  *)
(* later <mark> of that highlight has an id.                               *)
(***************************************************************************)
C6_AnchorOnFirstOccurrence ==
    pc = "rendered" =>
        \A id \in HighlightIds :
            LET marks == MarksOf(PartsOfPages(1), id) IN
            /\ Len(SelectSeq(PartsOfPages(1),
                             LAMBDA e : e.id = <<"highlight-", id>>)) <= 1
            /\ marks # <<>> => marks[1].id = <<"highlight-", id>>
            /\ \A i \in 2..Len(marks) : marks[i].id = undefined

\* a highlight rendered on two lines, next to another rendered highlight
C6_Witness ==
    /\ pc = "rendered"
    /\ Len(MarksOf(PartsOfPages(1), "h1")) >= 2
    /\ Len(MarksOf(PartsOfPages(1), "h2")) >= 1

(***************************************************************************)
(* C9: a highlight is composed on a page if and only if the locator, run   *)
(* on the full content, returns an offset g within the page's range        *)
(* [startIndex, startIndex + len(text)), and then its localIndex is        *)
(* g - startIndex; a highlight that is not found is composed on no page;   *)
(* rendering leaves the document's highlights as they are.                 *)
(***************************************************************************)
ComposedOn(k, id) == \E i \in 1..Len(composed[k]) : composed[k][i].id = id

C9_State ==
    pc = "rendered" =>
        \A k \in 1..Len(pageList) : \A n \in 1..Len(document.highlights) :
            LET h == document.highlights[n]
                g == findSnippetIndex(document.content, h.textSnippet)
                onPage == /\ g # -1
                          /\ pageList[k].startIndex <= g
                          /\ g < pageList[k].startIndex + Len(pageList[k].text)
            IN  /\ ComposedOn(k, h.id) <=> onPage
                /\ \A i \in 1..Len(composed[k]) :
                       composed[k][i].id = h.id
                           => composed[k][i].localIndex = g - pageList[k].startIndex

C9_ComposedIffOnPage ==
    [](C9_State) /\ [][document'.highlights = document.highlights]_vars

\* a highlight composed on the second page and one that is not found
C9_Witness ==
    /\ pc = "rendered"
    /\ Len(pageList) >= 2
    /\ ComposedOn(2, "h1")
    /\ findSnippetIndex(document.content, document.highlights[2].textSnippet) = -1
    /\ \A k \in 1..Len(pageList) : ~ComposedOn(k, "h2")

(***************************************************************************)
(* C10: the range [g, g + length) used for a resolved highlight covers     *)
(* exactly the content the snippet was matched against: its non-whitespace *)
(* characters are those of the snippet.  The code takes the snippet's own  *)
(* length, which differs when the whitespace differs.                      *)
(***************************************************************************)
C10_RangeCoversMatch ==
    pc = "rendered" =>
        \A k \in 1..Len(composed) : \A i \in 1..Len(composed[k]) :
            LET r == composed[k][i]
                g == pageList[k].startIndex + r.localIndex
            IN  stripWhitespace(substring(document.content, g, g + r.length))
                    = stripWhitespace(r.textSnippet)

(***************************************************************************)
(* C11: for a line whose intersecting highlights have pairwise disjoint    *)
(* ranges, the compositor walks them in ascending localIndex order and     *)
(* emits alternating plain and highlighted spans whose concatenation is    *)
(* the line text exactly, each highlighted span being the line's           *)
(* characters from max(0, highlightStart - lineStart) to                   *)
(* min(len(line), highlightEnd - lineStart).  This is the claim as stated, *)
(* for every line with at least one character that a highlight intersects  *)
(* (a line without characters has no span to emit); the code renders a     *)
(* line of whitespace as a line break without any span.                    *)
(***************************************************************************)
\* the highlights composed on page k that intersect line j, in the order of
\* highlightsWithIndices
RelevantOn(k, j) == SelectSeq(composed[k], LAMBDA r : Intersects(r, k, j))

PairwiseDisjoint(rs) ==
    \A a, b \in 1..Len(rs) :
        a < b => \/ rs[a].localIndex + rs[a].length <= rs[b].localIndex
                 \/ rs[b].localIndex + rs[b].length <= rs[a].localIndex

Marks(parts) == SelectSeq(parts, LAMBDA e : e.tag = "mark")

\* the part of line j of page k that highlight r covers
ClippedText(r, k, j) ==
    LET line == PageLines(k)[j]
        a == r.localIndex - LineStart(k, j)
        b == (r.localIndex + r.length) - LineStart(k, j)
    IN  SubSeq(line, (IF a > 0 THEN a ELSE 0) + 1, IF b < Len(line) THEN b ELSE Len(line))

\* what the claim says of line j of page k
ComposedExactly(k, j) ==
    LET parts == rendered[k][j].parts
        rel == RelevantOn(k, j)
    IN  /\ Flatten(PartTexts(parts)) = PageLines(k)[j]
        /\ Len(Marks(parts)) = Len(rel)
        /\ \A i \in 1..Len(rel) :
               /\ Marks(parts)[i].highlight = rel[i].id
               /\ Marks(parts)[i].text = ClippedText(rel[i], k, j)
        /\ \A i \in 1..(Len(rel) - 1) : rel[i].localIndex < rel[i + 1].localIndex
        /\ \A i \in 1..Len(parts) :
               parts[i].tag = "span" =>
                   /\ parts[i].text # <<>>
                   /\ i < Len(parts) => parts[i + 1].tag = "mark"

C11_Original ==
    pc = "rendered" =>
        \A k \in 1..Len(rendered) : \A j \in 1..Len(rendered[k]) :
            (/\ PageLines(k)[j] # <<>>
             /\ RelevantOn(k, j) # <<>>
             /\ PairwiseDisjoint(RelevantOn(k, j)))
                => ComposedExactly(k, j)

(***************************************************************************)
(* C11 as amended: the same for every line that has a character other than *)
(* whitespace; a line of whitespace only is rendered as a line break with  *)
(* no span, whatever highlights intersect it.                              *)
(***************************************************************************)
C11_DisjointHighlightsPartitionLine ==
    pc = "rendered" =>
        \A k \in 1..Len(rendered) : \A j \in 1..Len(rendered[k]) :
            /\ (/\ trim(PageLines(k)[j]) # <<>>
                /\ RelevantOn(k, j) # <<>>
                /\ PairwiseDisjoint(RelevantOn(k, j)))
                   => ComposedExactly(k, j)
            /\ trim(PageLines(k)[j]) = <<>>
                   => rendered[k][j].tag = "br" /\ rendered[k][j].parts = <<>>

\* a line with two disjoint highlights, the second of the list first in the
\* line, with plain text around them, one of them spanning a line break
C11_Witness ==
    /\ pc = "rendered"
    /\ \E k \in 1..Len(rendered) : \E j \in 1..Len(rendered[k]) :
           /\ Len(RelevantOn(k, j)) = 2
           /\ PairwiseDisjoint(RelevantOn(k, j))
           /\ RelevantOn(k, j)[1].id = "h2"
           /\ \E i \in 1..Len(rendered[k][j].parts) : rendered[k][j].parts[i].tag = "span"
           /\ \E i \in 1..2 : ~Within(RelevantOn(k, j)[i], k, j)
           /\ ComposedExactly(k, j)

(***************************************************************************)
(* C12: under marker pagination a page with zero-length text is emitted    *)
(* only for the very first marker; every later marker whose page text is   *)
(* empty (a marker right before another one, or at the end of content)     *)
(* produces no page, and every later marker with text produces one.        *)
(***************************************************************************)
MarkerStarts(t) == {i \in 0..Len(t) : MarkerAt(t, i)}

\* the text that follows the marker at offset i, up to the next marker
MarkerText(t, i) == SubSeq(t, MarkerEnd(t, i) + 1, NextMarkerStart(t, MarkerEnd(t, i)))

PageStarts == {pageList[k].startIndex : k \in 1..Len(pageList)}

C12_EmptyPageOnlyFirst ==
    (/\ pc = "paginated"
     /\ document.content # undefined
     /\ ContainsMarker(document.content))
        => LET t == document.content
               first == Min(MarkerStarts(t))
           IN  /\ pageList[1] = [text |-> MarkerText(t, first),
                                 startIndex |-> MarkerEnd(t, first)]
               /\ \A k \in 2..Len(pageList) : Len(pageList[k].text) > 0
               /\ \A i \in MarkerStarts(t) \ {first} :
                      MarkerEnd(t, i) \in PageStarts <=> MarkerText(t, i) # <<>>

\* three markers: the first right before the second, the third at the end of
\* content; the first gives an empty page, the third none
C12_Witness ==
    /\ pc = "paginated"
    /\ document.content # undefined
    /\ Cardinality(MarkerStarts(document.content)) = 3
    /\ Len(pageList) = 2
    /\ pageList[1].text = <<>>
    /\ pageList[2].text # <<>>
    /\ pageList[2].startIndex + Len(pageList[2].text) < Len(document.content)

(***************************************************************************)
(* Fallback pagination, stated on the pages it returns: for the claims     *)
(* about a non-empty content without page marker.                          *)
(***************************************************************************)
IsFallbackRun ==
    /\ pc = "paginated"
    /\ document.content # undefined
    /\ document.content # <<>>
    /\ ~ContainsMarker(document.content)

\* the paragraphs a page text holds, each ended by a newline in the text
ParagraphsOf(text) ==
    IF text = <<>> \/ text[Len(text)] # "\n" THEN <<text>>
    ELSE split(SubSeq(text, 1, Len(text) - 1), "\n")

RECURSIVE ParagraphsOfPages(_)
ParagraphsOfPages(k) ==
    IF k > Len(pageList) THEN <<>>
    ELSE ParagraphsOf(pageList[k].text) \o ParagraphsOfPages(k + 1)

\* the characters of the first n paragraphs of ps, newline terminators included
RECURSIVE CharsOf(_, _)
CharsOf(ps, n) == IF n = 0 THEN 0 ELSE CharsOf(ps, n - 1) + Len(ps[n]) + 1

(***************************************************************************)
(* C13: under fallback pagination no emitted page has empty text, and      *)
(* every paragraph longer than the character budget is the only paragraph  *)
(* on its page; a first paragraph that alone exceeds the budget is page 1  *)
(* alone.                                                                  *)
(***************************************************************************)
C13_LongParagraphAlone ==
    IsFallbackRun =>
        /\ \A k \in 1..Len(pageList) : pageList[k].text # <<>>
        /\ ParagraphsOfPages(1) = split(document.content, "\n")
        /\ \A k \in 1..Len(pageList) :
               (\E i \in 1..Len(ParagraphsOf(pageList[k].text)) :
                      Len(ParagraphsOf(pageList[k].text)[i]) > CHARS_PER_PAGE)
                   => Len(ParagraphsOf(pageList[k].text)) = 1
        /\ Len(split(document.content, "\n")[1]) > CHARS_PER_PAGE
               => pageList[1].text = split(document.content, "\n")[1] \o <<"\n">>

\* a first paragraph over the budget, followed by another paragraph
C13_Witness ==
    /\ IsFallbackRun
    /\ Len(split(document.content, "\n")) >= 2
    /\ Len(split(document.content, "\n")[1]) > CHARS_PER_PAGE
    /\ Len(pageList) >= 2
    /\ pageList[1].text = split(document.content, "\n")[1] \o <<"\n">>

(***************************************************************************)
(* C14: under fallback pagination a paragraph is appended to the current   *)
(* non-empty page exactly when the characters already on the page (newline *)
(* terminators included) plus the paragraph's length without terminator    *)
(* are at most CHARS_PER_PAGE: a tie is included, a paragraph that would   *)
(* exceed the budget starts a new page; so every page holding more than    *)
(* one paragraph has a text of at most CHARS_PER_PAGE + 1 characters.      *)
(***************************************************************************)
C14_RolloverBoundary ==
    IsFallbackRun =>
        /\ \A k \in 1..Len(pageList) :
               LET ps == ParagraphsOf(pageList[k].text) IN
               /\ pageList[k].text = Flatten([i \in 1..Len(ps) |-> ps[i] \o <<"\n">>])
               /\ \A i \in 2..Len(ps) : CharsOf(ps, i - 1) + Len(ps[i]) <= CHARS_PER_PAGE
               /\ Len(ps) > 1 => Len(pageList[k].text) <= CHARS_PER_PAGE + 1
        /\ \A k \in 1..(Len(pageList) - 1) :
               Len(pageList[k].text) + Len(ParagraphsOf(pageList[k + 1].text)[1])
                   > CHARS_PER_PAGE

\* a paragraph that ties the budget and stays on the page, the next one
\* starting a new page
C14_Witness ==
    /\ IsFallbackRun
    /\ Len(pageList) >= 2
    /\ LET ps == ParagraphsOf(pageList[1].text) IN
       /\ Len(ps) = 2
       /\ Len(ps[1]) > 0
       /\ Len(ps[2]) > 0
       /\ CharsOf(ps, 1) + Len(ps[2]) = CHARS_PER_PAGE
       /\ Len(pageList[1].text) = CHARS_PER_PAGE + 1

(***************************************************************************)
(* C15: under fallback pagination the first page has startIndex 0 and each *)
(* later page starts where the previous page's text ends, so the ranges    *)
(* are contiguous and disjoint; the text of every page but the last is the *)
(* content from its startIndex on.                                         *)
(***************************************************************************)
C15_ContiguousRanges ==
    IsFallbackRun =>
        /\ pageList[1].startIndex = 0
        /\ \A k \in 2..Len(pageList) :
               pageList[k].startIndex
                   = pageList[k - 1].startIndex + Len(pageList[k - 1].text)
        /\ \A k \in 1..(Len(pageList) - 1) :
               pageList[k].text
                   = SubSeq(document.content, pageList[k].startIndex + 1,
                            pageList[k].startIndex + Len(pageList[k].text))

\* three pages, the last one running one newline past the content
C15_Witness ==
    /\ IsFallbackRun
    /\ Len(pageList) >= 3
    /\ pageList[3].startIndex = Len(pageList[1].text) + Len(pageList[2].text)
    /\ pageList[Len(pageList)].startIndex + Len(pageList[Len(pageList)].text)
           = Len(document.content) + 1

(***************************************************************************)
(* C16: the class of a <mark> depends only on whether its highlight is     *)
(* selected, whether it has a remediation plan and its risk level: a       *)
(* selected highlight never looks like an unselected one, unselected       *)
(* highlights with a plan all look the same, and unselected highlights     *)
(* without a plan look different whenever their risk levels fall in        *)
(* different ones of the four treatments HIGH, MEDIUM, LOW and neutral     *)
(* (NEUTRAL or any other value).                                           *)
(***************************************************************************)
\* the <mark> elements the mounted viewer shows
MarkElements(element) ==
    {element.parts[n] : n \in {x \in 1..Len(element.parts) :
                                  element.parts[x].tag = "mark"}}

ViewerMarks ==
    UNION {UNION {MarkElements(ViewerRendered[k][j]) : j \in 1..Len(ViewerRendered[k])} :
           k \in 1..Len(ViewerRendered)}

MarkedHighlight(m) ==
    SelectSeq(document.highlights, LAMBDA h : h.id = m.highlight)[1]

RiskTreatment(riskLevel) ==
    IF riskLevel \in {"HIGH", "MEDIUM", "LOW"} THEN riskLevel ELSE "NEUTRAL"

IsSelected(h) == selectedHighlightId = h.id

HasRemediation(h) == h.remediation # <<>>

C16_StyleBySelectionPlanRisk ==
    \A m1 \in ViewerMarks : \A m2 \in ViewerMarks :
        LET h1 == MarkedHighlight(m1)
            h2 == MarkedHighlight(m2)
        IN  /\ (IsSelected(h1) = IsSelected(h2)
                  /\ HasRemediation(h1) = HasRemediation(h2)
                  /\ h1.riskLevel = h2.riskLevel)
                   => m1.className = m2.className
            /\ (IsSelected(h1) /\ ~IsSelected(h2)) => m1.className # m2.className
            /\ (~IsSelected(h1) /\ ~IsSelected(h2)
                  /\ HasRemediation(h1) /\ HasRemediation(h2))
                   => m1.className = m2.className
            /\ (~IsSelected(h1) /\ ~IsSelected(h2)
                  /\ HasRemediation(h1) /\ ~HasRemediation(h2))
                   => m1.className # m2.className
            /\ (~IsSelected(h1) /\ ~IsSelected(h2)
                  /\ ~HasRemediation(h1) /\ ~HasRemediation(h2)
                  /\ RiskTreatment(h1.riskLevel) # RiskTreatment(h2.riskLevel))
                   => m1.className # m2.className

(***************************************************************************)
(* C17: in the whitespace-insensitive path a non-whitespace character that *)
(* mismatches during a partial match resets the match cursor to 0 and      *)
(* clears the candidate start, and the scan resumes at the next character  *)
(* without testing the mismatching one as a new start: the result is the   *)
(* start of the first attempt that completes under that rule, else not     *)
(* found.  So for content 'aab' and snippet 'a b' the compacted snippet    *)
(* occurs in the compacted content and the locator reports not found.      *)
(***************************************************************************)
Max(S) == CHOOSE x \in S : \A y \in S : x >= y

\* the offsets at which an attempt starts
AttemptStarts(content, clean) ==
    {p \in 0..(Len(content) - 1) :
        Progress(content, clean, p) = 0 /\ Progress(content, clean, p + 1) = 1}

\* the number of characters read when an attempt first completes
Completions(content, clean) ==
    {i \in 1..Len(content) : Progress(content, clean, i) = Len(clean)}

C17_NoBacktracking ==
    (/\ pc = "located"
     /\ ExactOffsets(document.content, snippet) = {}
     /\ stripWhitespace(snippet) # <<>>)
        => LET content == document.content
               clean == stripWhitespace(snippet)
           IN  /\ found = -1 <=> Completions(content, clean) = {}
               /\ found # -1 =>
                      found = Max({p \in AttemptStarts(content, clean) :
                                      p < Min(Completions(content, clean))})
               /\ (content = <<"a", "a", "b">> /\ snippet = <<"a", " ", "b">>)
                      => /\ indexOf(stripWhitespace(content), clean) # -1
                         /\ found = -1

\* content 'aab', snippet 'a b': not found
C17_Witness ==
    /\ pc = "located"
    /\ document.content = <<"a", "a", "b">>
    /\ snippet = <<"a", " ", "b">>
    /\ indexOf(stripWhitespace(document.content), stripWhitespace(snippet)) = 1
    /\ found = -1

(***************************************************************************)
(* C18: for content 'The fee is 10% monthly.' and the snippet 'fee is 10%' *)
(* followed by two spaces and 'monthly', the exact search fails and the    *)
(* whitespace-insensitive path finds a match: the result is offset 4.      *)
(***************************************************************************)
C18_FeeScenario ==
    (pc = "located" /\ document.content = FeeContent /\ snippet = FeeSnippet)
        => /\ indexOf(document.content, snippet) = -1
           /\ found = 4
           /\ document.content[found + 1] = "f"

C18_Witness ==
    /\ pc = "located"
    /\ document.content = FeeContent
    /\ snippet = FeeSnippet
    /\ found = 4

(***************************************************************************)
(* C19: a VALIDATE entry is created in a document's history only from a    *)
(* state where the viewer shows that document, no highlight is selected,   *)
(* the document is not APPROVED and every highlight whose riskLevel is     *)
(* neither LOW nor NEUTRAL has a remediation plan, and the document is     *)
(* APPROVED after it; and whenever a document becomes APPROVED none of its *)
(* HIGH or MEDIUM highlights lacks a remediation, the step being that      *)
(* VALIDATE or a delayed commit writing back a record that was APPROVED    *)
(* when Save was clicked.                                                  *)
(***************************************************************************)
Entries(history) == {history[n] : n \in 1..Len(history)}

NewEntries(i) == Entries(documents'[i].history) \ Entries(documents[i].history)

\* the entries of document i created by the step, by action
Created(i, action) ==
    {e \in NewEntries(i) : e.action = action /\ e.id = <<"log-", now>>}

RisksPlanned(doc) ==
    \A n \in 1..Len(doc.highlights) :
        doc.highlights[n].riskLevel \notin {"LOW", "NEUTRAL"}
            => doc.highlights[n].remediation # <<>>

Opens(i) ==
    /\ Len(documents') = Len(documents)
    /\ selectedDocId = null
    /\ selectedDocId' = documents[i].id

C23_OpeningDocument ==
    [][\A i \in 1..Len(documents) :
          Opens(i)
             => /\ view' = "VIEWER"
                /\ documents'[i] = IF documents[i].status = "INBOX"
                                   THEN [documents[i] EXCEPT !.status = "IN_ANALYSIS"]
                                   ELSE documents[i]
                /\ \A j \in 1..Len(documents) : j # i => documents'[j] = documents[j]]_vars

\* the viewer shows d2, opened as COMPLIANT and still so, after d1 was opened
\* from INBOX
C23_Witness ==
    /\ view = "VIEWER"
    /\ selectedDocId = "d2"
    /\ documents[2].status = "COMPLIANT"
    /\ documents[1].status = "IN_ANALYSIS"

(***************************************************************************)
(* C29: when the exact search fails and the locator returns an offset s,   *)
(* content[s] is a non-whitespace character, the first one of the snippet  *)
(* without its whitespace, and the non-whitespace characters of content    *)
(* from s on begin with the whole snippet without its whitespace; a        *)
(* snippet of whitespace only that is not a substring is not found.        *)
(***************************************************************************)
C29_FuzzySound ==
    (pc = "located" /\ ExactOffsets(document.content, snippet) = {})
        => /\ found # -1
                => /\ found >= 0
                   /\ found < Len(document.content)
                   /\ stripWhitespace(snippet) # <<>>
                   /\ document.content[found + 1] = stripWhitespace(snippet)[1]
                   /\ CompactMatchAt(document.content, stripWhitespace(snippet), found)
           /\ stripWhitespace(snippet) = <<>> => found = -1

\* the whitespace-insensitive path finds, past the start of the content, a
\* snippet of two letters that the content has whitespace between
C29_Witness ==
    /\ pc = "located"
    /\ ExactOffsets(document.content, snippet) = {}
    /\ found > 0
    /\ Len(stripWhitespace(snippet)) >= 2
    /\ found + 2 <= Len(document.content)
    /\ IsSpace(document.content[found + 2])

(***************************************************************************)
(* C27: every highlight whose snippet the locator resolves to an offset in *)
(* content has its <mark> on exactly one page, with or without page        *)
(* markers in the content.                                                 *)
(***************************************************************************)
\* the pages that hold a <mark> of highlight id
PagesMarking(id) ==
    {k \in 1..Len(rendered) : MarksOf(PartsOfLines(rendered[k]), id) # <<>>}

ReadSettles(i) ==
    /\ runs[i].stage = "reading"
    /\ \/ runs' = Without(runs, i)
       \/ Len(runs') = Len(runs) /\ runs'[i].stage = "analysing"

\* the step is the analysis of run i throwing
AnalysisThrows(i) ==
    /\ runs[i].stage = "analysing"
    /\ runs' = Without(runs, i)

\* the file cannot be read or its text is insufficient
Unfit(file) ==
    \/ ~file.readable
    \/ file.text = <<>>
    \/ Len(cleanText(file.text)) < MinCleanLength

\* run i ends in the catch: no document is delivered, now or later, and the
\* component of the run, when it is mounted, shows the error
EndsInError(i) ==
    /\ runs' = Without(runs, i)
    /\ documents' = documents
    /\ runs[i].mounted =>
           /\ upload'.errorMessage # null
           /\ ~upload'.isProcessing
           /\ upload'.progressStep = 0

C24_FailureDeliversNothing ==
    [][\A i \in 1..Len(runs) :
          ((ReadSettles(i) /\ Unfit(runs[i].file)) \/ AnalysisThrows(i))
              => EndsInError(i)]_vars

(***************************************************************************)
(* C25: at most one file-processing run is in progress at a time: while    *)
(* isProcessing is true none of the three entry points starts a second     *)
(* run, so isProcessing and progressStep describe a single run.            *)
(***************************************************************************)
\* the runs whose processFile has not reached its timer
InProgress == SelectSeq(runs, LAMBDA r : r.stage # "timer")

\* as stated: one run in the whole application
C25_OneRunAtATime == Len(InProgress) <= 1

\* the runs of the mounted DocumentUpload
OwnRuns == SelectSeq(runs, LAMBDA r : r.mounted)

\* the progressStep processFile has set when a run is in a stage
StepOf(stage) ==
    IF stage = "reading" THEN 1 ELSE IF stage = "analysing" THEN 2 ELSE 3

\* C25 as amended: the mounted DocumentUpload has at most one run, the one
\* isProcessing and progressStep describe; the runs of unmounted components are
\* further runs
C25_OneRunPerUpload ==
    /\ Len(OwnRuns) <= 1
    /\ upload.isProcessing <=> OwnRuns # <<>>
    /\ upload.progressStep = (IF OwnRuns = <<>> THEN 0 ELSE StepOf(OwnRuns[1].stage))
    /\ OwnRuns # <<>> => view = "UPLOAD"

\* a run goes on while the DocumentUpload mounted after it has its own
C25_Witness ==
    /\ Len(runs) = 2
    /\ ~runs[1].mounted
    /\ runs[2].mounted
    /\ runs[1].stage = "analysing"
    /\ upload.isProcessing
    /\ upload.progressStep = 1

(***************************************************************************)
(* C26: in every reachable state view = 'VIEWER' exactly when              *)
(* selectedDocId is non-null, and a non-null selectedDocId is the id of a  *)
(* document of the list, so the viewer always has an active document; also *)
(* when an upload completes after the user has left the upload view.       *)
(***************************************************************************)
C26_ViewerHasDocument ==
    /\ view = "VIEWER" <=> selectedDocId # null
    /\ selectedDocId # null =>
           \E i \in 1..Len(documents) : documents[i].id = selectedDocId
    /\ view = "VIEWER" => ViewerMounted /\ document = activeDoc[1]

\* the viewer shows the document of a run that was overtaken by a run started
\* after the user had left its upload view
C26_Witness ==
    /\ view = "VIEWER"
    /\ selectedDocId = "doc-1"
    /\ Len(documents) >= 2
    /\ documents[1].id = "doc-1"
    /\ documents[2].id = "doc-2"

(***************************************************************************)
(* C30: after every change of the documents list the value stored under    *)
(* the local-storage key is the serialisation of the current whole list;   *)
(* at start-up the list is the stored list when one exists and parses,     *)
(* otherwise the mock documents; pages and resolved highlight offsets are  *)
(* never part of what is stored.                                           *)
(***************************************************************************)
\* the list App starts with
StartsFromStore ==
    pc = "constructed" =>
        documents = IF env.stored # <<>> /\ env.stored[1].valid
                    THEN [i \in 1..Len(env.stored[1].value) |->
                             parseDocument(env.stored[1].value[i])]
                    ELSE MOCK_DOCUMENTS

\* the names of the members of the stored documents and of their highlights
StoredNames(store) ==
    UNION {{store[1].value[i][j][1] : j \in 1..Len(store[1].value[i])}
              \cup UNION {{h[j][1] : j \in 1..Len(h)} :
                             h \in {member(store[1].value[i], "highlights")[1][2][n] :
                                       n \in 1..Len(member(store[1].value[i],
                                                           "highlights")[1][2])}}
           : i \in 1..Len(store[1].value)}

\* nothing the viewer derives is in the store
NothingDerivedStored(store) ==
    store # <<>> =>
        StoredNames(store) \cap {"pages", "startIndex", "localIndex", "length"} = {}

\* as stated: every change of the list is in the store after it
C30_StoredIsCurrent ==
    [][/\ StartsFromStore
       /\ documents' # documents => storage' = <<JSONstringify(documents')>>
       /\ storage' # storage => NothingDerivedStored(storage')]_vars

\* C30 as amended: the changed list is in the store unless setItem threw; then
\* the store is what it was
C30_StoredUnlessFull ==
    [][/\ StartsFromStore
       /\ documents' # documents =>
              /\ storage' \in {<<JSONstringify(documents')>>, storage}
              /\ env.quota = <<>> => storage' = <<JSONstringify(documents')>>
       /\ storage' # storage => NothingDerivedStored(storage')]_vars

\* a session that started from a stored list has stored an uploaded document
\* with it
C30_Witness ==
    /\ env.stored # <<>>
    /\ env.stored[1].valid
    /\ Len(documents) = 2
    /\ documents[1].id = "doc-1"
    /\ documents[2].id = "doc-9"
    /\ storage = <<JSONstringify(documents)>>
    /\ JSONparse(storage[1]) = documents

(***************************************************************************)
(* C28: for a PDF whose page texts contain no marker, the extracted        *)
(* content is the concatenation, over the pages with non-blank text in     *)
(* order, of the marker of page i, a newline, text_i and two newlines; the *)
(* paginator returns exactly one page per non-blank PDF page, in the same  *)
(* order, whose text is text_i followed by the two newlines; no marker     *)
(* text appears in any page.                                               *)
(***************************************************************************)
\* the numbers of the pages that gave a non-blank text, in order
NonBlankPages ==
    SelectSeq([i \in 1..Len(pdf) |-> i],
              LAMBDA i : pdf[i] # <<>> /\ \E j \in 1..Len(pdf[i][1]) : ~IsSpace(pdf[i][1][j]))

NoMarkerInPdf == \A i \in 1..Len(pdf) : pdf[i] # <<>> => ~ContainsMarker(pdf[i][1])

\* '--- Página i ---'
MarkerLine(i) ==
    <<"-", "-", "-", " ", "P", "á", "g", "i", "n", "a", " ">>
        \o (IF i < 10 THEN <<DigitChars[i + 1]>>
            ELSE <<DigitChars[(i \div 10) + 1], DigitChars[(i % 10) + 1]>>)
        \o <<" ", "-", "-", "-">>

C28_PdfRoundTrip ==
    (pc = "paginated" /\ NoMarkerInPdf) =>
        /\ document.content =
               Flatten([k \in 1..Len(NonBlankPages) |->
                           MarkerLine(NonBlankPages[k]) \o <<"\n">>
                               \o pdf[NonBlankPages[k]][1] \o <<"\n", "\n">>])
        /\ Len(pageList) = Len(NonBlankPages)
        /\ \A k \in 1..Len(pageList) :
               /\ pageList[k].text = pdf[NonBlankPages[k]][1] \o <<"\n", "\n">>
               /\ ~ContainsMarker(pageList[k].text)

\* a PDF of twelve pages: the tenth and the twelfth have text, the eleventh is
\* blank, the first nine are blank too
C28_Witness ==
    /\ pc = "paginated"
    /\ NoMarkerInPdf
    /\ Len(pdf) = 12
    /\ NonBlankPages = <<10, 12>>
    /\ pdf[11] = <<<<" ">>>>
    /\ Len(pageList) = 2
    /\ pageList[2].text = <<"\n", "a", " ", "\n", "\n">>

====
